---- MODULE Spec2Model ----
(***************************************************************************)
(* Model of the push notification consumer (push_service/consumer.py):     *)
(* the RabbitMQ queues it uses, the per-message handler process_message    *)
(* split at its calls on the broker and on its collaborators, and the      *)
(* reconnect loop of start_consumer.                                       *)
(***************************************************************************)
EXTENDS Integers, Sequences, FiniteSets, Bags, TLC

(* ----------------------------- bounds ---------------------------------- *)
(* what the environment may do in one execution: a body published by a producer
   weighs 2, a connection failure weighs 1 *)
MaxLoad == 3
(* the number of calls of render_template_variables one caller makes *)
MaxCalls == 2
(* the number of deliveries the broker makes to a fleet of consumers *)
MaxPushes == 3
(* the largest failure_threshold and recovery_timeout a CircuitBreaker is built with *)
MaxThreshold == 2
MaxTimeout == 2
(* how far the clock runs, and how many calls are made through one breaker *)
MaxClock == 4
MaxBreakerCalls == 4
(* the largest max_retries, base_delay and max_delay retry_with_backoff is called with *)
MaxRetries == 3
MaxBaseDelay == 2
MaxDelay == 4
(* the number of requests the template service gets *)
MaxRequests == 4

(* ------------------------ program constants ---------------------------- *)
MAX_RETRY_COUNT == 3
RETRY_DELAYS == <<60, 300, 900>>
QUEUE_NAME == "push.queue"
DLQ_NAME == "failed.queue"

(* Python's None, for values that are strings otherwise *)
None == "None"
(* Python's None, for values that are dicts otherwise *)
NoData == [py_none |-> TRUE]
(* a Python value that is not a dict where a dict is expected (a list, a string, a number) *)
NotDict == [py_not_dict |-> TRUE]
(* no delivery held / no body *)
NoBody == [kind |-> "none"]

(* line 438: channel.basic_qos(prefetch_count=1) *)
PREFETCH_COUNT == 1

(* the consumer processes that exist; each runs start_consumer's single-threaded loop *)
Fleet == {"c1", "c2"}
(* the consumer process that runs when the service is deployed as one instance *)
Consumers == {"c1"}
(* the notification ids, in the order the producer uses them *)
IdSeq == <<"n1", "n2">>
NotificationIds == {IdSeq[i] : i \in DOMAIN IdSeq}

(* ------------------------------ dicts ---------------------------------- *)
(* dict.get(k, default) *)
Get(m, k, default) == IF k \in DOMAIN m THEN m[k] ELSE default

(* m[k] = v *)
Put(m, k, v) == [x \in DOMAIN m \cup {k} |-> IF x = k THEN v ELSE m[x]]

(* json.dumps of a dict: a body that decodes to an object *)
json_dumps(m) == [kind |-> "object", value |-> m]

(* json.loads succeeds on this body: it is a JSON object, or another JSON value *)
Decodable(b) == b.kind \in {"object", "value"}

(* json.loads of a decodable body: a dict for a JSON object *)
json_loads(b) == IF b.kind = "object" THEN b.value ELSE NotDict

(* isinstance(v, dict), for the values that are used as dicts *)
IsDict(v) == v # NotDict /\ v # NoData

(* ------------------------------ queues --------------------------------- *)
(* f"push.retry.{delay}" *)
RetryQueueName(d) ==
    CASE d = 60 -> "push.retry.60"
      [] d = 300 -> "push.retry.300"
      [] d = 900 -> "push.retry.900"

RetryQueues == {RetryQueueName(RETRY_DELAYS[i]) : i \in 1..Len(RETRY_DELAYS)}
QueueNames == {QUEUE_NAME, DLQ_NAME} \cup RetryQueues

(* a queue the broker does not know *)
NotDeclared == [declared |-> FALSE]

(* the arguments start_consumer declares the main queue with (lines 431-435) *)
MainQueueArguments == [declared |-> TRUE, durable |-> TRUE, x_max_priority |-> 10]

(* the arguments move_to_dlq declares failed.queue with (line 257) *)
DlqArguments == [declared |-> TRUE, durable |-> TRUE]

(* the TTL is a third of the delay *)
RetryQueueArgumentsShortTtl(d) ==
    [declared |-> TRUE, durable |-> TRUE, x_message_ttl |-> d * 333,
     x_dead_letter_exchange |-> "", x_dead_letter_routing_key |-> QUEUE_NAME]

(* the arguments schedule_retry declares push.retry.<delay> with (lines 281-289) *)
RetryQueueArguments(d) ==
    [declared |-> TRUE, durable |-> TRUE, x_message_ttl |-> d * 1000,
     x_dead_letter_exchange |-> "", x_dead_letter_routing_key |-> QUEUE_NAME]

(* channel.queue_declare succeeds when the queue is new or was declared with the same
   arguments (and then changes nothing); the broker refuses other arguments *)
DeclareAccepted(ds, q, args) == ds[q] \in {NotDeclared, args}

Enqueue(qs, q, b) == [qs EXCEPT ![q] = @ (+) SetToBag({b})]
Dequeue(qs, q, b) == [qs EXCEPT ![q] = @ (-) SetToBag({b})]

(* ----------------------------- channels -------------------------------- *)
(* no channel: the connection is lost or was not opened *)
Closed == [open |-> FALSE]

(* the channel may hold two unacknowledged deliveries *)
OpenChannelPrefetchTwo == [open |-> TRUE, prefetch_count |-> PREFETCH_COUNT + 1, queue |-> QUEUE_NAME, auto_ack |-> FALSE]

(* lines 437-445: basic_qos(prefetch_count=1), basic_consume(QUEUE_NAME, auto_ack=False) *)
OpenChannel == [open |-> TRUE, prefetch_count |-> PREFETCH_COUNT, queue |-> QUEUE_NAME, auto_ack |-> FALSE]

(* ------------------------ what the producer sends ---------------------- *)
WellFormed(n) == json_dumps([notification_id |-> n, user_id |-> "u1", template_code |-> "t1"])
Garbage == [kind |-> "garbage"]
NoIdBody == json_dumps([user_id |-> "u1", template_code |-> "t1"])
(* valid JSON that is not an object, such as [1, 2] *)
NonObjectBody == [kind |-> "value"]
(* "variables" is a list; "variables" holds a "meta" that is a string *)
BadVariablesBody == json_dumps([notification_id |-> "p1", user_id |-> "u1", template_code |-> "t1", variables |-> NotDict])
BadMetaBody == json_dumps([notification_id |-> "p1", user_id |-> "u1", template_code |-> "t1", variables |-> [meta |-> NotDict]])
MalformedBodies == {Garbage, NoIdBody, NonObjectBody, BadVariablesBody, BadMetaBody}

(* --------------------- answers of the collaborators -------------------- *)
UserResponses ==
    { NoData,
      [push_token |-> "", preferences |-> [push |-> TRUE]],
      [preferences |-> [push |-> FALSE]],
      [push_token |-> "tok", preferences |-> [push |-> FALSE]],
      [push_token |-> "tok", preferences |-> NotDict],
      [push_token |-> "tok"] }

TemplateResponses == { NoData, [title |-> "T", body |-> "B"] }

(* how the HTTP call of a lookup ends when it does not end in a 200: another status
   code, or an exception of requests *)
LookupExceptions == {"Timeout", "ConnectionError"}
LookupFailures == {"404", "503"} \cup LookupExceptions

(* a lookup ends in a 200 whose JSON has this under "data", or in a failure *)
Answers(responses) ==
    {[outcome |-> "200", data |-> resp] : resp \in responses}
    \cup {[outcome |-> o, data |-> NoData] : o \in LookupFailures}

(* only the timeout is caught *)
LookupCatchesTimeoutOnly(e) == e = "Timeout"

(* lines 99-104 and 129-134: `except requests.exceptions.Timeout`, then `except Exception`,
   which catches every other exception *)
LookupCatches(e) == e = "Timeout" \/ e \in LookupExceptions

(* fetch_user_data, lines 91-104: data.get("data") of a 200, None otherwise *)
fetch_user_data(answer) == IF answer.outcome = "200" THEN answer.data ELSE NoData

(* fetch_template_data, lines 121-134: data.get("data") of a 200, None otherwise *)
fetch_template_data(answer) == IF answer.outcome = "200" THEN answer.data ELSE NoData

(* how a call of the gateway ends: messaging.send returns, or raises *)
GatewayOutcomes == {"sent", "UnregisteredError", "SenderIdMismatchError", "Exception"}

(* only the two named errors are caught *)
SendCatchesNamedOnly(e) == e \in {"UnregisteredError", "SenderIdMismatchError"}

(* lines 201-212: the two named errors, then `except Exception` for every other one *)
SendCatches(e) == e \in {"UnregisteredError", "SenderIdMismatchError"} \/ e \in GatewayOutcomes \ {"sent"}

(* the gateway is called also when it was not initialised *)
send_push_notification_fcmNoSimulation(initialized, outcome) == outcome = "sent"

(* send_push_notification_fcm, lines 158-212: True without a call of the gateway when
   Firebase is not initialised, else True when messaging.send returned and False when
   an exception was caught *)
send_push_notification_fcm(initialized, outcome) == IF ~initialized THEN TRUE ELSE outcome = "sent"

(* ------------------------- process_message ----------------------------- *)
(* the status is reported before the delivery is acknowledged *)
DlqBranchReportsFirst == <<"move_to_dlq", "update_notification_status", "basic_ack">>

(* the statements of the branches that dead-letter: lines 324-326, 333-335, 350-352, 398-400 *)
DlqBranch == <<"move_to_dlq", "basic_ack", "update_notification_status">>

(* the original is acknowledged before the retry copy is published *)
RetryBranchAckFirst == <<"basic_ack", "schedule_retry", "update_notification_status">>

(* lines 392-394 *)
RetryBranch == <<"schedule_retry", "basic_ack", "update_notification_status">>

(* the status is reported and the delivery is left unsettled *)
AckBranchForgetsAck == <<"update_notification_status">>

(* lines 342-343 and 381-382 *)
AckBranch == <<"basic_ack", "update_notification_status">>

(* the retry budget never runs out *)
ShouldRetryUnbounded(rc) == TRUE

(* a retry is scheduled once more than the bound allows *)
ShouldRetryInclusive(rc) == rc <= MAX_RETRY_COUNT

(* line 387 *)
ShouldRetry(rc) == rc < MAX_RETRY_COUNT

(* the tier is chosen by the incremented retry_count *)
RetryDelayPostIncrement(rc) == IF rc + 1 < Len(RETRY_DELAYS) THEN RETRY_DELAYS[rc + 2] ELSE RETRY_DELAYS[Len(RETRY_DELAYS)]

(* line 390 *)
RetryDelay(rc) == IF rc < Len(RETRY_DELAYS) THEN RETRY_DELAYS[rc + 1] ELSE RETRY_DELAYS[Len(RETRY_DELAYS)]

(* the counter is written back as it was *)
RetryMessageKeepsCount(m, rc) == Put(m, "retry_count", rc)

(* the counter is advanced twice *)
RetryMessageSkips(m, rc) == Put(m, "retry_count", rc + 2)

(* line 389 *)
RetryMessage(m, rc) == Put(m, "retry_count", rc + 1)

(* the attempt that failed is counted in the dead-lettered copy *)
DlqMessageCountsAttempt(m, r) ==
    Put(Put(Put(m, "failure_reason", r), "failed_at", "utcnow"), "retry_count", Get(m, "retry_count", 0) + 1)

(* move_to_dlq, lines 259-260 *)
DlqMessage(m, r) == Put(Put(m, "failure_reason", r), "failed_at", "utcnow")

(* -------------------- render_template_variables ------------------------ *)
(* Python values: a str is the sequence of its characters *)
PyNone == [type |-> "NoneType"]
PyStr(chars) == [type |-> "str", chars |-> chars]
PyInt(n) == [type |-> "int", n |-> n]

DigitChar(d) ==
    CASE d = 0 -> "0" [] d = 1 -> "1" [] d = 2 -> "2" [] d = 3 -> "3" [] d = 4 -> "4"
      [] d = 5 -> "5" [] d = 6 -> "6" [] d = 7 -> "7" [] d = 8 -> "8" [] d = 9 -> "9"

(* str(n) of a natural number: its decimal digits *)
RECURSIVE Decimal(_)
Decimal(n) == IF n < 10 THEN <<DigitChar(n)>> ELSE Decimal(n \div 10) \o <<DigitChar(n % 10)>>

(* str(value), line 145 *)
str(v) ==
    CASE v.type = "str" -> v.chars
      [] v.type = "int" -> Decimal(v.n)
      [] v.type = "NoneType" -> <<"N", "o", "n", "e">>

(* f"{{{{{key}}}}}", line 144: the key between two pairs of braces *)
Placeholder(key) == <<"{", "{">> \o key \o <<"}", "}">>

(* s.replace(old, new) for a non-empty old: the occurrences of old, found from the left
   and not overlapping, are replaced by new; what was inserted is not searched again *)
RECURSIVE Replace(_, _, _)
Replace(s, old, new) ==
    IF Len(s) < Len(old) THEN s
    ELSE IF SubSeq(s, 1, Len(old)) = old
         THEN new \o Replace(SubSeq(s, Len(old) + 1, Len(s)), old, new)
         ELSE <<s[1]>> \o Replace(Tail(s), old, new)

(* `not template_string`, line 139: None or the empty string *)
Blank(t) == t = PyNone \/ t.chars = <<>>

(* variables.items(), line 143: the (key, value) pairs in insertion order; a dict is
   represented by that sequence *)
Items(d) == d

(* one round of the loop, lines 144-145 *)
LoopBody(res, item) == Replace(res, Placeholder(item[1]), str(item[2]))

(* the loop takes the items out of the dict it iterates *)
AfterIterationDrained(d) == <<>>

(* line 143: iterating over items() leaves the dict as it is *)
AfterIteration(d) == d

(* the templates and dicts the renderer is called with *)
Chars_Hi_name == <<"H", "i", " ", "{", "{", "n", "a", "m", "e", "}", "}">>
Templates ==
    { PyNone,
      PyStr(<<>>),
      PyStr(Chars_Hi_name),
      PyStr(<<"{", "{", "a", "}", "}">>),
      PyStr(<<"{", "{", "a", "}", "}", "{", "{", "b", "}", "}">>),
      PyStr(<<"{", "{", "a", "}", "}", "-", "{", "{", "a", "}", "}", "{", "{", "x", "}", "}">>),
      PyStr(<<"n", "o", " ", "t", "o", "k", "e", "n">>) }

Dicts ==
    { <<>>,
      << <<(<<"n", "a", "m", "e">>), PyStr(<<"A", "d", "a">>)>> >>,
      << <<(<<"a">>), PyStr(<<"1">>)>>, <<(<<"b">>), PyInt(42)>> >>,
      << <<(<<"a">>), PyStr(<<"{", "{", "b", "}", "}">>)>>, <<(<<"b">>), PyStr(<<"x">>)>> >>,
      << <<(<<"a">>), PyNone>>, <<(<<"c">>), PyStr(<<>>)>> >> }

(* the same key/value pairs inserted in the opposite order *)
Reversed(d) == [i \in DOMAIN d |-> d[Len(d) + 1 - i]]

(* -------------------- the data handed to the gateway ------------------- *)
(* a dict whose order of keys plays no role is the function from its keys to its values *)
PyEmptyDict == [k \in {} |-> PyNone]

(* `if value:`, line 367, of what variables.get("meta") returns: None and {} are false *)
Truthy(v) == v # PyNone /\ v # PyEmptyDict

(* the keys the payload already has keep their values *)
dict_updateKeepsOwn(d, other) ==
    [k \in DOMAIN d \cup DOMAIN other |-> IF k \in DOMAIN d THEN d[k] ELSE other[k]]

(* d.update(other), line 368: the keys of other are set in d, replacing what d had *)
dict_update(d, other) ==
    [k \in DOMAIN d \cup DOMAIN other |-> IF k \in DOMAIN other THEN other[k] ELSE d[k]]

(* lines 361-364: the dict literal data_payload starts from *)
BasePayload(notification_id, variables) ==
    [notification_id |-> notification_id,
     link |-> PyStr(str(Get(variables, "link", PyStr(<<>>))))]

(* the messages whose payload is built: with and without notification_id, variables,
   link (a str, an int, null) and meta (empty, new keys, the keys of the payload) *)
PayloadLinks == {PyStr(<<"/", "x">>), PyInt(7), PyNone}
PayloadMetas ==
    { PyEmptyDict,
      [k |-> PyStr(<<"v">>)],
      [link |-> PyStr(<<"/", "m">>)],
      [notification_id |-> PyStr(<<"z">>), k |-> PyInt(1)] }
PayloadVariables ==
    LET links == {PyEmptyDict} \cup {[link |-> v] : v \in PayloadLinks}
    IN  links \cup {Put(v, "meta", m) : v \in links, m \in PayloadMetas}
PayloadMessages ==
    LET ids == {PyEmptyDict, [notification_id |-> PyStr(<<"n", "1">>)]}
    IN  ids \cup {Put(i, "variables", v) : i \in ids, v \in PayloadVariables}

(* nothing was handed to the gateway yet *)
NotHanded == [handed |-> FALSE]

(* ------------------ template_service: the circuit breaker -------------- *)
(* class CircuitBreakerState, lines 14-17 *)
CLOSED == "closed"
OPEN == "open"
HALF_OPEN == "half_open"

(* last_failure_time = None: no failure was seen *)
NeverFailed == -1

(* CircuitBreaker.__init__, lines 23-34 *)
CircuitBreaker(failure_threshold, recovery_timeout) ==
    [failure_threshold |-> failure_threshold, recovery_timeout |-> recovery_timeout,
     failure_count |-> 0, last_failure_time |-> NeverFailed, state |-> CLOSED]

(* the timeout must be exceeded, not reached *)
should_attempt_resetStrict(b, now) ==
    b.last_failure_time # NeverFailed /\ (now - b.last_failure_time) > b.recovery_timeout

(* _should_attempt_reset, lines 74-79 *)
should_attempt_reset(b, now) ==
    b.last_failure_time # NeverFailed /\ (now - b.last_failure_time) >= b.recovery_timeout

(* a success closes the breaker and leaves the count *)
on_successKeepsCount(b) == [b EXCEPT !.state = IF @ = HALF_OPEN THEN CLOSED ELSE @]

(* _on_success, lines 55-60 *)
on_success(b) == [b EXCEPT !.state = IF @ = HALF_OPEN THEN CLOSED ELSE @, !.failure_count = 0]

(* the breaker opens one failure late *)
on_failureStrict(b, now) ==
    [b EXCEPT !.failure_count = @ + 1,
              !.last_failure_time = now,
              !.state = IF b.failure_count + 1 > b.failure_threshold THEN OPEN ELSE @]

(* _on_failure, lines 62-72 *)
on_failure(b, now) ==
    [b EXCEPT !.failure_count = @ + 1,
              !.last_failure_time = now,
              !.state = IF b.failure_count + 1 >= b.failure_threshold THEN OPEN ELSE @]

(* the exceptions the wrapped function raises *)
FuncExceptions == {"ValueError", "ConnectionError"}

(* how a use of the function ends for its caller *)
NoOutcome == [kind |-> "none"]
Returned == [kind |-> "returned"]
Raise(e) == [kind |-> "raised", exception |-> e]

(* a plain function handed to CircuitBreaker.call *)
PlainFunction == [coroutine |-> FALSE, named_async |-> FALSE, decorated |-> FALSE]

(* the functions @circuit_breaker decorates: `def` or `async def`, with or without the
   letters "async" in the name *)
DecoratedFunctions == [coroutine : BOOLEAN, named_async : BOOLEAN, decorated : {TRUE}]

(* line 103: `"async" in str(func)`; str(func) is "<function NAME at 0x...>", which holds
   "async" when the name does, whatever the kind of the function *)
Wrapper(f) == IF f.named_async THEN "async_wrapper" ELSE "sync_wrapper"

(* ------------------ template_service: retry_with_backoff --------------- *)
Min(a, b) == IF a <= b THEN a ELSE b

(* the delay is not capped *)
BackoffDelayUncapped(base_delay, max_delay, attempt) == base_delay * (2 ^ attempt)

(* retry.py line 49: min(base_delay * (2 ** attempt), max_delay) *)
BackoffDelay(base_delay, max_delay, attempt) == Min(base_delay * (2 ^ attempt), max_delay)

(* last_exception = None / the exception raised by the k-th invocation of func *)
NoException == [raised |-> FALSE]
ExceptionOf(k) == [raised |-> TRUE, invocation |-> k]

(* `raise None` (line 56 when the loop has not run): TypeError *)
RaiseNone == [raised |-> TRUE, invocation |-> 0]

(* ------------------ template_service: templates and cache -------------- *)
(* TemplateCreate (schemas.py 61-65) of the one template the requests are about *)
TemplateCreate == [subject |-> "S1", body |-> "B1"]

(* TemplateUpdate (schemas.py 79-85): every field is optional *)
TemplateUpdates == { [subject |-> None, body |-> "B2"], [subject |-> "S2", body |-> None] }

(* the handlers that run at the same time: two requests overlap, as two consumers do *)
Workers == {"w1", "w2"}

(* no row / no response yet *)
NoRow == [version |-> 0]
NoResponse == [status_code |-> 0]

(* crud.get_template_by_name, lines 16-23: the row with the highest version, or None *)
get_template_by_name(rows) ==
    IF rows = {} THEN NoRow ELSE CHOOSE t \in rows : \A u \in rows : u.version <= t.version

(* crud.create_template, lines 33-36: the row of version 1 *)
create_template(template) == [version |-> 1, subject |-> template.subject, body |-> template.body]

(* crud.create_new_template_version, lines 53-61 *)
create_new_template_version(latest_template, template_update) ==
    [version |-> latest_template.version + 1,
     subject |-> IF template_update.subject # None THEN template_update.subject ELSE latest_template.subject,
     body |-> IF template_update.body # None THEN template_update.body ELSE latest_template.body]

(* the table has no unique index *)
UniqueViolationNever(rows, row) == FALSE

(* models.py lines 31-33: the unique index on (name, language, version) makes the commit
   of a second row with the same version fail *)
UniqueViolation(rows, row) == \E t \in rows : t.version = row.version

(* the Redis entry set_template_cache writes (cache.py line 97) *)
Entry(template) == [cached |-> TRUE, value |-> template]

(* how a Redis command ends: it succeeds, or it raises and the method's except clause
   logs the error, or the except clause itself fails and the error leaves the method
   (the clauses name `redis.RedisError` where `redis` is the client object, lines 79, 99, 115) *)
RedisOutcomes == {"ok", "error_logged", "error_raised"}

VARIABLES
    queues,       \* broker: queue name -> bag of bodies
    declared,     \* broker: queue name -> the arguments it was declared with
    unacked,      \* broker: consumer -> the delivery process_message was called with and has not settled
    inbox,        \* broker: consumer -> the deliveries pushed to it that wait for process_message
    channel,      \* consumer -> the channel start_consumer has opened, or Closed
    firebase_initialized, \* the module global set when the module is loaded
    pc,           \* consumer -> the call process_message is about to make
    todo,         \* consumer -> the calls of the chosen branch still to make
    body,         \* consumer -> the body process_message was called with
    message,      \* consumer -> the decoded message
    retry_count,  \* consumer -> message.get("retry_count", 0)
    reason,       \* consumer -> the reason handed to move_to_dlq
    delay,        \* consumer -> the delay handed to schedule_retry
    status,       \* consumer -> the arguments of update_notification_status
    trace,        \* consumer -> the calls of this pass, in order
    sends,        \* notification_id -> number of gateway sends made for it
    attempts,     \* bag of the gateway sends made: notification_id, retry_count, result
    published,    \* bag of <<queue, body>> the consumers have published
    reports,      \* the status reports made, in order: notification_id, status, error
    entered,      \* notification ids the producer has published
    produced,     \* number of bodies the producer has published
    crashes,      \* number of connection failures so far
    pushed,       \* number of deliveries the broker has sent to the fleet
    template_string, \* renderer: the template the caller holds
    dicts,        \* renderer: the caller's "variables" dict, built in two insertion orders
    r_pc,         \* renderer: the line render_template_variables is at
    r_arg,        \* renderer: which of the two dicts was passed to the current call
    r_items,      \* renderer: the items the for loop has still to visit
    result,       \* renderer: the local variable result
    outputs,      \* renderer: the calls that have returned: the dict passed, the value returned
    p_message,    \* payload: the decoded message whose payload is built
    p_pc,         \* payload: the line of process_message the build is at
    data_payload, \* payload: the local variable data_payload
    handed,       \* payload: the data argument send_push_notification_fcm was called with
    l_function,   \* lookup: the function called, fetch_user_data or fetch_template_data
    l_answer,     \* lookup: how the HTTP call of the function ends
    l_message,    \* lookup: the message process_message is handling
    l_pc,         \* lookup: where the call is
    l_value,      \* lookup: the value the function returned
    l_decision,   \* lookup: what process_message decided on that value
    cb,           \* breaker: the CircuitBreaker object: its parameters, failure_count, last_failure_time, state
    clock,        \* breaker: what time.time() returns
    func,         \* breaker: the wrapped function: a coroutine function or not, and how it is called
    cb_pc,        \* breaker: where the call is: idle, inside func, or awaiting what func returned
    cb_outcome,   \* breaker: how the last use of the function ended for its caller
    cb_seen,      \* breaker: counts of what has happened: calls, invocations of func, failures in a row
    retry,        \* retry_with_backoff: its parameters and locals (attempt, last_exception) and where it is
    retry_seen,   \* retry_with_backoff: how each invocation of func ended, and the delays slept
    templates,    \* template service: the rows of the table "templates", for one (name, language)
    redis,        \* template service: the Redis entry of that (name, language)
    requests      \* template service: request -> the handler it runs, where it is, its locals, its response

broker == <<queues, declared, unacked, inbox, channel>>
locals == <<pc, todo, body, message, retry_count, reason, delay, status, trace>>
ghost == <<sends, attempts, published, reports>>
env == <<entered, produced, crashes, pushed>>
renderer == <<template_string, dicts, r_pc, r_arg, r_items, result, outputs>>
builder == <<p_message, p_pc, data_payload, handed>>
lookup == <<l_function, l_answer, l_message, l_pc, l_value, l_decision>>
guard == <<cb, clock, func, cb_pc, cb_outcome, cb_seen>>
backoff == <<retry, retry_seen>>
store == <<templates, redis, requests>>
service == <<guard, backoff, store>>
vars == <<queues, declared, unacked, inbox, channel, firebase_initialized, pc, todo, body, message, retry_count, reason, delay, status,
          trace, sends, attempts, published, reports, entered, produced, crashes, pushed,
          template_string, dicts, r_pc, r_arg, r_items, result, outputs,
          p_message, p_pc, data_payload, handed,
          l_function, l_answer, l_message, l_pc, l_value, l_decision, service>>

(* the load the environment has put on the system so far *)
Load == 2 * produced + crashes

NoStatus == [status |-> "", error |-> None]

(* the consumer has connected and waits for its first delivery; nothing was published *)
InitConsumer ==
    /\ queues = [q \in QueueNames |-> EmptyBag]
    /\ declared = [q \in QueueNames |-> IF q = QUEUE_NAME THEN MainQueueArguments ELSE NotDeclared]
    /\ unacked = [c \in Fleet |-> NoBody]
    /\ inbox = [c \in Fleet |-> EmptyBag]
    /\ channel = [c \in Fleet |-> OpenChannel]
    /\ firebase_initialized \in BOOLEAN
    /\ pc = [c \in Fleet |-> "idle"]
    /\ todo = [c \in Fleet |-> <<>>]
    /\ body = [c \in Fleet |-> NoBody]
    /\ message = [c \in Fleet |-> NoData]
    /\ retry_count = [c \in Fleet |-> 0]
    /\ reason = [c \in Fleet |-> ""]
    /\ delay = [c \in Fleet |-> 0]
    /\ status = [c \in Fleet |-> NoStatus]
    /\ trace = [c \in Fleet |-> <<>>]
    /\ sends = [n \in NotificationIds \cup {None} |-> 0]
    /\ attempts = EmptyBag
    /\ published = EmptyBag
    /\ reports = <<>>
    /\ entered = {}
    /\ produced = 0
    /\ crashes = 0
    /\ pushed = 0

(* no call of the renderer is in progress *)
RendererIdle ==
    /\ r_pc = "idle"
    /\ r_arg = 1
    /\ r_items = <<>>
    /\ result = <<>>
    /\ outputs = <<>>

(* no payload is being built *)
BuilderIdle ==
    /\ p_message = PyEmptyDict
    /\ p_pc = "idle"
    /\ data_payload = PyEmptyDict
    /\ handed = NotHanded

(* no lookup is being followed *)
NoDecision == [calls |-> <<>>, reason |-> "", status |-> "", error |-> None]
LookupIdle ==
    /\ l_function = "fetch_user_data"
    /\ l_answer = [outcome |-> "200", data |-> NoData]
    /\ l_message = NoData
    /\ l_pc = "idle"
    /\ l_value = NoData
    /\ l_decision = NoDecision

(* no breaker is in use *)
NothingSeen == [calls |-> 0, invocations |-> 0, streak |-> 0, failures |-> 0]
BreakerIdle ==
    /\ cb = CircuitBreaker(1, 0)
    /\ clock = 0
    /\ func = PlainFunction
    /\ cb_pc = "idle"
    /\ cb_outcome = NoOutcome
    /\ cb_seen = NothingSeen

(* retry_with_backoff is not called *)
NoInvocations == [invocations |-> <<>>, sleeps |-> <<>>, outcome |-> NoOutcome]
RetryIdle ==
    /\ retry = [max_retries |-> 0, base_delay |-> 1, max_delay |-> 1, attempt |-> 0, pc |-> "idle",
                last_exception |-> NoException, delay |-> 0]
    /\ retry_seen = NoInvocations

(* the table is empty, nothing is cached, no request has arrived *)
NoEntry == [cached |-> FALSE]
NoRequest == [handler |-> "none", pc |-> "none"]
StoreIdle ==
    /\ templates = {}
    /\ redis = NoEntry
    /\ requests = <<>>

(* the template service is not in use *)
ServiceIdle == BreakerIdle /\ RetryIdle /\ StoreIdle

Init ==
    /\ InitConsumer
    /\ ServiceIdle
    /\ LookupIdle
    /\ template_string = PyNone
    /\ dicts = <<(<<>>), (<<>>)>>
    /\ RendererIdle
    /\ BuilderIdle

(* a producer publishes a body on the main queue: a new notification, or a body
   that is not a well-formed work item *)
ProducerPublish ==
    /\ Load + 2 <= MaxLoad
    /\ produced' = produced + 1
    /\ \/ /\ Cardinality(entered) < Len(IdSeq)
          /\ LET n == IdSeq[Cardinality(entered) + 1]
             IN  /\ queues' = Enqueue(queues, QUEUE_NAME, WellFormed(n))
                 /\ entered' = entered \cup {n}
       \/ \E b \in MalformedBodies :
             /\ queues' = Enqueue(queues, QUEUE_NAME, b)
             /\ UNCHANGED entered
    /\ UNCHANGED <<declared, unacked, locals, ghost, crashes, pushed, inbox, channel, firebase_initialized, renderer, builder, lookup, service>>

(* the deliveries the broker has sent on the consumer's channel and that are not settled *)
Outstanding(c) == BagCardinality(inbox[c]) + (IF unacked[c] = NoBody THEN 0 ELSE 1)

(* the broker may send the consumer another delivery: its channel consumes the main queue
   and holds fewer unsettled deliveries than its prefetch_count *)
CanPush(c) ==
    /\ channel[c] # Closed
    /\ channel[c].queue = QUEUE_NAME
    /\ Outstanding(c) < channel[c].prefetch_count

(* the broker hands an idle consumer one message of the main queue and pika calls
   process_message with it at once *)
Deliver(c) ==
    /\ pc[c] = "idle"
    /\ CanPush(c)
    /\ inbox[c] = EmptyBag
    /\ \E b \in BagToSet(queues[QUEUE_NAME]) :
          /\ queues' = Dequeue(queues, QUEUE_NAME, b)
          /\ unacked' = [unacked EXCEPT ![c] = b]
          /\ body' = [body EXCEPT ![c] = b]
    /\ pc' = [pc EXCEPT ![c] = "json_loads"]
    /\ UNCHANGED <<declared, todo, message, retry_count, reason, delay, status, trace, ghost, env, inbox, channel, firebase_initialized, renderer, builder, lookup, service>>

(* the branch is chosen: its first call is next, the others follow *)
Take(c, d) ==
    /\ pc' = [pc EXCEPT ![c] = Head(d.calls)]
    /\ todo' = [todo EXCEPT ![c] = Tail(d.calls)]
    /\ reason' = [reason EXCEPT ![c] = d.reason]
    /\ status' = [status EXCEPT ![c] = [status |-> d.status, error |-> d.error]]

(* process_message goes on with these calls, or returns when none is left *)
Continue(c, calls) ==
    /\ pc' = [pc EXCEPT ![c] = IF calls = <<>> THEN "return" ELSE Head(calls)]
    /\ todo' = [todo EXCEPT ![c] = IF calls = <<>> THEN <<>> ELSE Tail(calls)]

(* a call of the branch is done: the next one, or the handler returns *)
Advance(c) == Continue(c, todo[c])

(* an error of the broker inside schedule_retry or move_to_dlq reaches process_message *)
AfterPublishEscapes(raised, rest) == IF raised THEN <<"basic_nack">> ELSE rest

(* lines 271-272 and 302-303: the error is logged inside the helper, which returns
   normally; process_message goes on with the rest of its branch *)
AfterPublish(raised, rest) == rest

(* the outcomes of the POST of update_notification_status: a 200/201 answer, another
   status code, a timeout, any other exception *)
StatusOutcomes == {"ok", "refused", "timeout", "exception"}

(* a failed POST reaches process_message as an exception *)
AfterStatusEscapes(outcome, rest) == IF outcome \in {"timeout", "exception"} THEN <<"basic_nack">> ELSE rest

(* lines 244-250: every outcome is logged and the helper returns normally *)
AfterStatus(outcome, rest) == rest

(* the calls of the pass are recorded in the order they are made *)
LogAll(c, es) == trace' = [trace EXCEPT ![c] = @ \o es]

Log(c, e) == LogAll(c, <<e>>)

(* the record of a channel.basic_publish the broker accepted *)
BasicPublish(q, b) == [op |-> "basic_publish", routing_key |-> q, body |-> b]

(* the undecodable body is acknowledged instead of rejected *)
JsonErrorBranchAcks == <<"basic_ack">>

(* lines 403-405: the handler of json.JSONDecodeError *)
JsonErrorBranch == <<"basic_nack">>

(* lines 407-409: the handler of every other exception raised inside the try block *)
ExceptionBranch == <<"basic_nack">>

(* a rejected message is put back on the queue *)
NackRequeueTrue == TRUE

(* lines 405 and 409: requeue=False *)
NackRequeue == FALSE

(* what process_message does with the decoded body: message.get raises AttributeError
   when the JSON value is not an object (lines 312-316) *)
ParseDecision(m) == IF IsDict(m) THEN <<"fetch_user_data">> ELSE ExceptionBranch

(* lines 310-318 *)
Parse(c) ==
    /\ pc[c] = "json_loads"
    /\ IF Decodable(body[c])
       THEN /\ message' = [message EXCEPT ![c] = json_loads(body[c])]
            /\ retry_count' = [retry_count EXCEPT ![c] = Get(json_loads(body[c]), "retry_count", 0)]
            /\ pc' = [pc EXCEPT ![c] = Head(ParseDecision(json_loads(body[c])))]
            /\ todo' = [todo EXCEPT ![c] = Tail(ParseDecision(json_loads(body[c])))]
       ELSE /\ pc' = [pc EXCEPT ![c] = Head(JsonErrorBranch)]
            /\ todo' = [todo EXCEPT ![c] = Tail(JsonErrorBranch)]
            /\ UNCHANGED <<message, retry_count>>
    /\ UNCHANGED <<broker, body, reason, delay, status, trace, ghost, env, firebase_initialized, renderer, builder, lookup, service>>

EmptyDict == <<>>

(* a statement of the try block raised: the handler of lines 407-409 takes over *)
Raised == [calls |-> ExceptionBranch, reason |-> "", status |-> "", error |-> None]

(* `not push_token` (line 331): None and the empty string are false *)
Not(v) == v \in {None, ""}

(* a missing user is reported and acknowledged but not dead-lettered *)
UserDecisionSkipsDlq(resp) ==
    IF resp = NoData
    THEN [calls |-> AckBranch, reason |-> "User not found", status |-> "failed", error |-> "User not found"]
    ELSE IF Not(Get(resp, "push_token", None))
    THEN [calls |-> DlqBranch, reason |-> "Missing push token", status |-> "failed", error |-> "Missing push token"]
    ELSE IF ~IsDict(Get(resp, "preferences", EmptyDict))
    THEN Raised
    ELSE IF ~Get(Get(resp, "preferences", EmptyDict), "push", TRUE)
    THEN [calls |-> AckBranch, reason |-> "", status |-> "skipped", error |-> "User disabled push notifications"]
    ELSE [calls |-> <<"fetch_template_data">>, reason |-> "", status |-> "", error |-> None]

(* a profile without push_token is treated like any other profile *)
UserDecisionTokenOptional(resp) ==
    IF resp = NoData
    THEN [calls |-> DlqBranch, reason |-> "User not found", status |-> "failed", error |-> "User not found"]
    ELSE IF ~IsDict(Get(resp, "preferences", EmptyDict))
    THEN Raised
    ELSE IF ~Get(Get(resp, "preferences", EmptyDict), "push", TRUE)
    THEN [calls |-> AckBranch, reason |-> "", status |-> "skipped", error |-> "User disabled push notifications"]
    ELSE [calls |-> <<"fetch_template_data">>, reason |-> "", status |-> "", error |-> None]

(* an opted-out recipient is handled as a failure: dead-lettered and reported failed *)
UserDecisionOptOutFails(resp) ==
    IF resp = NoData
    THEN [calls |-> DlqBranch, reason |-> "User not found", status |-> "failed", error |-> "User not found"]
    ELSE IF Not(Get(resp, "push_token", None))
    THEN [calls |-> DlqBranch, reason |-> "Missing push token", status |-> "failed", error |-> "Missing push token"]
    ELSE IF ~IsDict(Get(resp, "preferences", EmptyDict))
    THEN Raised
    ELSE IF ~Get(Get(resp, "preferences", EmptyDict), "push", TRUE)
    THEN [calls |-> DlqBranch, reason |-> "User disabled push notifications", status |-> "failed", error |-> "User disabled push notifications"]
    ELSE [calls |-> <<"fetch_template_data">>, reason |-> "", status |-> "", error |-> None]

(* the preferences are looked at before the push_token *)
UserDecisionPreferencesFirst(resp) ==
    IF resp = NoData
    THEN [calls |-> DlqBranch, reason |-> "User not found", status |-> "failed", error |-> "User not found"]
    ELSE IF ~IsDict(Get(resp, "preferences", EmptyDict))
    THEN Raised
    ELSE IF ~Get(Get(resp, "preferences", EmptyDict), "push", TRUE)
    THEN [calls |-> AckBranch, reason |-> "", status |-> "skipped", error |-> "User disabled push notifications"]
    ELSE IF Not(Get(resp, "push_token", None))
    THEN [calls |-> DlqBranch, reason |-> "Missing push token", status |-> "failed", error |-> "Missing push token"]
    ELSE [calls |-> <<"fetch_template_data">>, reason |-> "", status |-> "", error |-> None]

(* lines 322-344: what process_message does with the answer of fetch_user_data *)
UserDecision(resp) ==
    IF resp = NoData
    THEN [calls |-> DlqBranch, reason |-> "User not found", status |-> "failed", error |-> "User not found"]
    ELSE IF Not(Get(resp, "push_token", None))
    THEN [calls |-> DlqBranch, reason |-> "Missing push token", status |-> "failed", error |-> "Missing push token"]
    ELSE IF ~IsDict(Get(resp, "preferences", EmptyDict))
    THEN Raised
    ELSE IF ~Get(Get(resp, "preferences", EmptyDict), "push", TRUE)
    THEN [calls |-> AckBranch, reason |-> "", status |-> "skipped", error |-> "User disabled push notifications"]
    ELSE [calls |-> <<"fetch_template_data">>, reason |-> "", status |-> "", error |-> None]

(* lines 321-344 *)
FetchUser(c) ==
    /\ pc[c] = "fetch_user_data"
    /\ \E answer \in Answers(UserResponses) :
          LET escapes == answer.outcome \in LookupExceptions /\ ~LookupCatches(answer.outcome)
              resp == fetch_user_data(answer)
          IN  /\ Take(c, IF escapes THEN Raised ELSE UserDecision(resp))
              /\ Log(c, [op |-> "fetch_user_data", found |-> resp # NoData, data |-> resp])
    /\ UNCHANGED <<broker, body, message, retry_count, delay, ghost, env, firebase_initialized, renderer, builder, lookup, service>>

(* lines 356-368 raise when "variables" is not a dict (variables.items(), variables.get)
   or when its "meta" cannot update the payload dict *)
PayloadRaises(m) ==
    \/ ~IsDict(Get(m, "variables", EmptyDict))
    \/ ~IsDict(Get(Get(m, "variables", EmptyDict), "meta", EmptyDict))

(* lines 348-368: what process_message does with the answer of fetch_template_data *)
TemplateDecision(resp, m) ==
    IF resp = NoData
    THEN [calls |-> DlqBranch, reason |-> "Template not found", status |-> "failed", error |-> "Template not found"]
    ELSE IF PayloadRaises(m)
    THEN Raised
    ELSE [calls |-> <<"send_push_notification_fcm">>, reason |-> "", status |-> "", error |-> None]

(* lines 347-368 *)
FetchTemplate(c) ==
    /\ pc[c] = "fetch_template_data"
    /\ \E answer \in Answers(TemplateResponses) :
          LET escapes == answer.outcome \in LookupExceptions /\ ~LookupCatches(answer.outcome)
              resp == fetch_template_data(answer)
          IN  /\ Take(c, IF escapes THEN Raised ELSE TemplateDecision(resp, message[c]))
              /\ Log(c, [op |-> "fetch_template_data", found |-> resp # NoData])
    /\ UNCHANGED <<broker, body, message, retry_count, delay, ghost, env, firebase_initialized, renderer, builder, lookup, service>>

(* the report carries the retry_count the pass received *)
AttemptTextReceived(n) ==
    CASE n = 1 -> "Retry scheduled (attempt 0)"
      [] n = 2 -> "Retry scheduled (attempt 1)"
      [] n = 3 -> "Retry scheduled (attempt 2)"
      [] n = 4 -> "Retry scheduled (attempt 3)"
      [] OTHER -> "Retry scheduled (attempt N)"

(* f"Retry scheduled (attempt {retry_count + 1})" *)
AttemptText(n) ==
    CASE n = 1 -> "Retry scheduled (attempt 1)"
      [] n = 2 -> "Retry scheduled (attempt 2)"
      [] n = 3 -> "Retry scheduled (attempt 3)"
      [] n = 4 -> "Retry scheduled (attempt 4)"
      [] OTHER -> "Retry scheduled (attempt N)"

(* an exhausted message is acknowledged without being dead-lettered *)
SendDecisionDropsAtMax(success, rc) ==
    IF success
    THEN [calls |-> AckBranch, reason |-> "", status |-> "delivered", error |-> None]
    ELSE IF ShouldRetry(rc)
    THEN [calls |-> RetryBranch, reason |-> "", status |-> "pending", error |-> AttemptText(rc + 1)]
    ELSE [calls |-> AckBranch, reason |-> "Max retries exceeded", status |-> "failed", error |-> "Max retries exceeded"]

(* the retry budget is looked at before the result of the send *)
SendDecisionExhaustedFirst(success, rc) ==
    IF ~ShouldRetry(rc)
    THEN [calls |-> DlqBranch, reason |-> "Max retries exceeded", status |-> "failed", error |-> "Max retries exceeded"]
    ELSE IF success
    THEN [calls |-> AckBranch, reason |-> "", status |-> "delivered", error |-> None]
    ELSE [calls |-> RetryBranch, reason |-> "", status |-> "pending", error |-> AttemptText(rc + 1)]

(* lines 379-401: what process_message does with the result of the gateway send *)
SendDecision(success, rc) ==
    IF success
    THEN [calls |-> AckBranch, reason |-> "", status |-> "delivered", error |-> None]
    ELSE IF ShouldRetry(rc)
    THEN [calls |-> RetryBranch, reason |-> "", status |-> "pending", error |-> AttemptText(rc + 1)]
    ELSE [calls |-> DlqBranch, reason |-> "Max retries exceeded", status |-> "failed", error |-> "Max retries exceeded"]

(* lines 356-390: render, build the payload, send, and on failure prepare the retry;
   the history variable attempts is kept when `recorded` *)
SendWith(c, recorded) ==
    /\ pc[c] = "send_push_notification_fcm"
    /\ \E outcome \in GatewayOutcomes :
          LET escapes == firebase_initialized /\ outcome # "sent" /\ ~SendCatches(outcome)
              success == ~escapes /\ send_push_notification_fcm(firebase_initialized, outcome)
          IN  /\ Take(c, IF escapes THEN Raised ELSE SendDecision(success, retry_count[c]))
              /\ Log(c, [op |-> "send_push_notification_fcm", success |-> success])
              /\ attempts' = IF recorded
                             THEN attempts (+) SetToBag({[notification_id |-> Get(message[c], "notification_id", None),
                                                          retry_count |-> retry_count[c], success |-> success]})
                             ELSE attempts
              /\ IF ~escapes /\ ~success /\ ShouldRetry(retry_count[c])
                 THEN /\ message' = [message EXCEPT ![c] = RetryMessage(@, retry_count[c])]
                      /\ delay' = [delay EXCEPT ![c] = RetryDelay(retry_count[c])]
                 ELSE UNCHANGED <<message, delay>>
    /\ sends' = [sends EXCEPT ![Get(message[c], "notification_id", None)] = @ + 1]
    /\ UNCHANGED <<broker, body, retry_count, published, reports, env, firebase_initialized, renderer, builder, lookup, service>>

Send(c) == SendWith(c, FALSE)

SendRecorded(c) == SendWith(c, TRUE)

(* lines 275-303: declare the retry queue and publish to it; an error of the broker
   (the declaration is refused, the connection drops) is swallowed *)
ScheduleRetry(c) ==
    /\ pc[c] = "schedule_retry"
    /\ LET q == RetryQueueName(delay[c])
           args == RetryQueueArguments(delay[c])
           copy == json_dumps(message[c])
       IN \E outcome \in {"ok", "declare_raises", "publish_raises"} :
             /\ outcome # "declare_raises" => DeclareAccepted(declared, q, args)
             /\ LogAll(c, <<[op |-> "schedule_retry", message |-> message[c], delay |-> delay[c],
                             raised |-> outcome # "ok"]>>
                          \o (IF outcome = "declare_raises" THEN <<>>
                              ELSE <<[op |-> "queue_declare", queue |-> q, arguments |-> args]>>)
                          \o (IF outcome # "ok" THEN <<>> ELSE <<BasicPublish(q, copy)>>))
             /\ declared' = IF outcome = "declare_raises" THEN declared ELSE [declared EXCEPT ![q] = args]
             /\ IF outcome = "ok"
                THEN /\ queues' = Enqueue(queues, q, copy)
                     /\ published' = published (+) SetToBag({<<q, copy>>})
                ELSE UNCHANGED <<queues, published>>
             /\ Continue(c, AfterPublish(outcome # "ok", todo[c]))
    /\ UNCHANGED <<unacked, body, message, retry_count, reason, delay, status, sends, attempts, reports, env, inbox, channel, firebase_initialized, renderer, builder, lookup, service>>

(* lines 253-272: declare the dead-letter queue, mark the message and publish; an error is swallowed *)
MoveToDlq(c) ==
    /\ pc[c] = "move_to_dlq"
    /\ LET dead == json_dumps(DlqMessage(message[c], reason[c]))
       IN \E outcome \in {"ok", "declare_raises", "publish_raises"} :
             /\ outcome # "declare_raises" => DeclareAccepted(declared, DLQ_NAME, DlqArguments)
             /\ LogAll(c, <<[op |-> "move_to_dlq", message |-> message[c], reason |-> reason[c],
                             raised |-> outcome # "ok"]>>
                          \o (IF outcome = "declare_raises" THEN <<>>
                              ELSE <<[op |-> "queue_declare", queue |-> DLQ_NAME, arguments |-> DlqArguments]>>)
                          \o (IF outcome # "ok" THEN <<>> ELSE <<BasicPublish(DLQ_NAME, dead)>>))
             /\ declared' = IF outcome = "declare_raises" THEN declared ELSE [declared EXCEPT ![DLQ_NAME] = DlqArguments]
             /\ message' = [message EXCEPT ![c] = IF outcome = "declare_raises" THEN @ ELSE DlqMessage(@, reason[c])]
             /\ IF outcome = "ok"
                THEN /\ queues' = Enqueue(queues, DLQ_NAME, dead)
                     /\ published' = published (+) SetToBag({<<DLQ_NAME, dead>>})
                ELSE UNCHANGED <<queues, published>>
             /\ Continue(c, AfterPublish(outcome # "ok", todo[c]))
    /\ UNCHANGED <<unacked, body, retry_count, reason, delay, status, sends, attempts, reports, env, inbox, channel, firebase_initialized, renderer, builder, lookup, service>>

(* ch.basic_ack(delivery_tag): the broker forgets the delivery *)
BasicAck(c) ==
    /\ pc[c] = "basic_ack"
    /\ unacked' = [unacked EXCEPT ![c] = NoBody]
    /\ Log(c, [op |-> "basic_ack"])
    /\ Advance(c)
    /\ UNCHANGED <<queues, declared, body, message, retry_count, reason, delay, status, ghost, env, inbox, channel, firebase_initialized, renderer, builder, lookup, service>>

(* ch.basic_nack(delivery_tag, requeue=False): the broker drops the delivery (the main
   queue has no dead-letter exchange); with requeue=True it would put it back *)
BasicNack(c) ==
    /\ pc[c] = "basic_nack"
    /\ unacked' = [unacked EXCEPT ![c] = NoBody]
    /\ queues' = IF NackRequeue THEN Enqueue(queues, QUEUE_NAME, unacked[c]) ELSE queues
    /\ Log(c, [op |-> "basic_nack", requeue |-> NackRequeue])
    /\ Advance(c)
    /\ UNCHANGED <<declared, body, message, retry_count, reason, delay, status, ghost, env, inbox, channel, firebase_initialized, renderer, builder, lookup, service>>

(* lines 215-250: best-effort POST; every outcome is logged and ignored; the history
   variable reports is kept when `recorded` *)
UpdateStatusWith(c, outcomes, recorded) ==
    /\ pc[c] = "update_notification_status"
    /\ \E outcome \in outcomes :
          /\ Log(c, [op |-> "update_notification_status",
                     notification_id |-> Get(message[c], "notification_id", None),
                     status |-> status[c].status, error |-> status[c].error])
          /\ Continue(c, AfterStatus(outcome, todo[c]))
    /\ reports' = IF recorded
                  THEN Append(reports, [notification_id |-> Get(message[c], "notification_id", None),
                                        status |-> status[c].status, error |-> status[c].error])
                  ELSE reports
    /\ UNCHANGED <<broker, body, message, retry_count, reason, delay, status, sends, attempts, published, env,
                   firebase_initialized, renderer, builder, lookup, service>>

UpdateNotificationStatus(c) == UpdateStatusWith(c, StatusOutcomes, FALSE)

(* the POST is answered 200/201: the collaborator has the report *)
UpdateNotificationStatusReceived(c) == UpdateStatusWith(c, {"ok"}, TRUE)

(* the locals of a consumer that is not in process_message *)
Reset(c) ==
    /\ todo' = [todo EXCEPT ![c] = <<>>]
    /\ body' = [body EXCEPT ![c] = NoBody]
    /\ message' = [message EXCEPT ![c] = NoData]
    /\ retry_count' = [retry_count EXCEPT ![c] = 0]
    /\ reason' = [reason EXCEPT ![c] = ""]
    /\ delay' = [delay EXCEPT ![c] = 0]
    /\ status' = [status EXCEPT ![c] = NoStatus]
    /\ trace' = [trace EXCEPT ![c] = <<>>]

(* process_message returns to channel.start_consuming() *)
Return(c) ==
    /\ pc[c] = "return"
    /\ pc' = [pc EXCEPT ![c] = "idle"]
    /\ Reset(c)
    /\ UNCHANGED <<broker, ghost, env, firebase_initialized, renderer, builder, lookup, service>>

(* the broker puts back on the main queue what the consumer's channel had not settled *)
Requeued(c) ==
    [queues EXCEPT ![QUEUE_NAME] =
        (@ (+) inbox[c]) (+) (IF unacked[c] = NoBody THEN EmptyBag ELSE SetToBag({unacked[c]}))]

(* the loop of start_consumer ends when the connection fails *)
AfterConnectionErrorBreaks == "stopped"

(* lines 454-462: both except branches log, sleep 5 seconds and let `while True` go round *)
AfterConnectionError == "down"

(* the connection fails (or the process dies) inside process_message: the broker
   requeues the unacknowledged delivery, start_consumer falls into its except branch *)
Crash(c) ==
    /\ pc[c] \notin {"idle", "down", "stopped"}
    /\ Load + 1 <= MaxLoad
    /\ crashes' = crashes + 1
    /\ queues' = Requeued(c)
    /\ unacked' = [unacked EXCEPT ![c] = NoBody]
    /\ inbox' = [inbox EXCEPT ![c] = EmptyBag]
    /\ channel' = [channel EXCEPT ![c] = Closed]
    /\ pc' = [pc EXCEPT ![c] = AfterConnectionError]
    /\ Reset(c)
    /\ UNCHANGED <<declared, ghost, entered, produced, pushed, firebase_initialized, renderer, builder, lookup, service>>

(* KeyboardInterrupt, lines 450-452: the loop breaks and the process ends; the broker
   requeues what the closed connection had not settled *)
Interrupt(c) ==
    /\ pc[c] # "stopped"
    /\ queues' = Requeued(c)
    /\ unacked' = [unacked EXCEPT ![c] = NoBody]
    /\ inbox' = [inbox EXCEPT ![c] = EmptyBag]
    /\ channel' = [channel EXCEPT ![c] = Closed]
    /\ pc' = [pc EXCEPT ![c] = "stopped"]
    /\ Reset(c)
    /\ UNCHANGED <<declared, ghost, env, firebase_initialized, renderer, builder, lookup, service>>

(* start_consumer, lines 424-448: sleep, connect, declare, basic_qos(1), basic_consume *)
Reconnect(c) ==
    /\ pc[c] = "down"
    /\ DeclareAccepted(declared, QUEUE_NAME, MainQueueArguments)
    /\ declared' = [declared EXCEPT ![QUEUE_NAME] = MainQueueArguments]
    /\ channel' = [channel EXCEPT ![c] = OpenChannel]
    /\ pc' = [pc EXCEPT ![c] = "idle"]
    /\ UNCHANGED <<queues, unacked, inbox, todo, body, message, retry_count, reason, delay, status, trace, ghost, env, firebase_initialized, renderer, builder, lookup, service>>

(* x-message-ttl expires on a retry queue: the broker dead-letters the body, as it is,
   to the routing key the queue was declared with *)
Expire(q) ==
    /\ q \in RetryQueues
    /\ declared[q] # NotDeclared
    /\ \E b \in BagToSet(queues[q]) :
          queues' = Enqueue(Dequeue(queues, q, b), declared[q].x_dead_letter_routing_key, b)
    /\ UNCHANGED <<declared, unacked, locals, ghost, env, inbox, channel, firebase_initialized, renderer, builder, lookup, service>>

Handler(c) ==
    \/ Parse(c)
    \/ FetchUser(c)
    \/ FetchTemplate(c)
    \/ Send(c)
    \/ ScheduleRetry(c)
    \/ MoveToDlq(c)
    \/ BasicAck(c)
    \/ BasicNack(c)
    \/ UpdateNotificationStatus(c)
    \/ Return(c)

Reliable ==
    \/ ProducerPublish
    \/ \E c \in Consumers : Deliver(c)
    \/ \E c \in Consumers : Handler(c)
    \/ \E q \in RetryQueues : Expire(q)

Next ==
    \/ Reliable
    \/ \E c \in Consumers : Crash(c)
    \/ \E c \in Consumers : Reconnect(c)

Spec == Init /\ [][Next]_vars

(* process_message with the history of its gateway sends kept in attempts *)
HandlerRecorded(c) ==
    \/ Parse(c)
    \/ FetchUser(c)
    \/ FetchTemplate(c)
    \/ SendRecorded(c)
    \/ ScheduleRetry(c)
    \/ MoveToDlq(c)
    \/ BasicAck(c)
    \/ BasicNack(c)
    \/ UpdateNotificationStatus(c)
    \/ Return(c)

NextRecorded ==
    \/ ProducerPublish
    \/ \E c \in Consumers : Deliver(c)
    \/ \E c \in Consumers : HandlerRecorded(c)
    \/ \E q \in RetryQueues : Expire(q)
    \/ \E c \in Consumers : Crash(c)
    \/ \E c \in Consumers : Reconnect(c)

(* Spec with the history variable attempts *)
SpecRecorded == Init /\ [][NextRecorded]_vars

(* the producer publishes a new notification *)
PublishNotification == ProducerPublish /\ entered' # entered

NextLifecycle ==
    \/ PublishNotification
    \/ \E c \in Consumers : Deliver(c)
    \/ \E c \in Consumers : Handler(c)
    \/ \E q \in RetryQueues : Expire(q)
    \/ \E c \in Consumers : Crash(c)
    \/ \E c \in Consumers : Reconnect(c)
    \/ \E c \in Consumers : Interrupt(c)

(* start_consumer from its start to its end, fed with notifications: the loop goes round
   after a connection failure (the broker accepts a connection again at some time), until
   it is interrupted *)
SpecLifecycle == Init /\ [][NextLifecycle]_vars /\ \A c \in Consumers : WF_vars(Reconnect(c))

(* the executions in which no connection fails and no consumer dies *)
SpecCrashFree == Init /\ [][Reliable]_vars

TypeOK ==
    /\ \A c \in Consumers : pc[c] \in {"idle", "down", "stopped", "json_loads", "fetch_user_data", "fetch_template_data",
                                        "send_push_notification_fcm", "schedule_retry", "move_to_dlq",
                                        "basic_ack", "basic_nack", "update_notification_status", "return"}
    /\ crashes \in 0..MaxLoad
    /\ produced \in 0..MaxLoad
    /\ Load <= MaxLoad

(* ------------------------- a fleet of consumers ------------------------ *)
(* a producer publishes a body on the main queue the fleet consumes *)
FleetPublish ==
    /\ Cardinality(entered) < Len(IdSeq)
    /\ produced' = produced + 1
    /\ LET n == IdSeq[Cardinality(entered) + 1]
       IN  /\ queues' = Enqueue(queues, QUEUE_NAME, WellFormed(n))
           /\ entered' = entered \cup {n}
    /\ UNCHANGED <<declared, unacked, inbox, channel, locals, ghost, crashes, pushed, firebase_initialized, renderer, builder, lookup, service>>

(* the broker sends a message of the main queue on the channel of a consumer that has
   room for it; the consumer may be inside process_message *)
Push(c) ==
    /\ CanPush(c)
    /\ pushed < MaxPushes
    /\ pushed' = pushed + 1
    /\ \E b \in BagToSet(queues[QUEUE_NAME]) :
          /\ queues' = Dequeue(queues, QUEUE_NAME, b)
          /\ inbox' = [inbox EXCEPT ![c] = @ (+) SetToBag({b})]
    /\ UNCHANGED <<declared, unacked, channel, locals, ghost, entered, produced, crashes, firebase_initialized, renderer, builder, lookup, service>>

(* start_consuming calls process_message with a delivery that waits on the channel *)
Callback(c) ==
    /\ pc[c] = "idle"
    /\ \E b \in BagToSet(inbox[c]) :
          /\ inbox' = [inbox EXCEPT ![c] = @ (-) SetToBag({b})]
          /\ unacked' = [unacked EXCEPT ![c] = b]
          /\ body' = [body EXCEPT ![c] = b]
    /\ pc' = [pc EXCEPT ![c] = "json_loads"]
    /\ UNCHANGED <<queues, declared, channel, todo, message, retry_count, reason, delay, status, trace,
                   ghost, env, firebase_initialized, renderer, builder, lookup, service>>

NextFleet ==
    \/ FleetPublish
    \/ \E c \in Fleet : Push(c)
    \/ \E c \in Fleet : Callback(c)
    \/ \E c \in Fleet : Handler(c)
    \/ \E q \in RetryQueues : Expire(q)

(* the executions of two consumer processes on the same main queue *)
SpecFleet == Init /\ [][NextFleet]_vars

(* --------------------- calls of the renderer --------------------------- *)
consumer == <<queues, declared, unacked, inbox, channel, firebase_initialized, pc, todo, body, message, retry_count, reason, delay, status,
              trace, sends, attempts, published, reports, entered, produced, crashes, pushed>>

(* a caller holds a template and a dict (built in one of two insertion orders) and
   calls render_template_variables with them *)
InitRender ==
    /\ InitConsumer
    /\ ServiceIdle
    /\ template_string \in Templates
    /\ \E d \in Dicts : dicts \in {<<d, d>>, <<d, Reversed(d)>>}
    /\ RendererIdle
    /\ BuilderIdle
    /\ LookupIdle

(* render_template_variables(template_string, dicts[k]) is called *)
RenderCall(k) ==
    /\ r_pc = "idle"
    /\ Len(outputs) < MaxCalls
    /\ r_arg' = k
    /\ r_pc' = "line139"
    /\ UNCHANGED <<consumer, service, builder, lookup, template_string, dicts, r_items, result, outputs>>

(* lines 139-142: return "" for a blank template, else start from the template *)
RenderCheck ==
    /\ r_pc = "line139"
    /\ IF Blank(template_string)
       THEN /\ outputs' = Append(outputs, [arg |-> r_arg, value |-> <<>>])
            /\ r_pc' = "idle"
            /\ UNCHANGED <<result, r_items>>
       ELSE /\ result' = template_string.chars
            /\ r_items' = Items(dicts[r_arg])
            /\ r_pc' = "line143"
            /\ UNCHANGED outputs
    /\ UNCHANGED <<consumer, service, builder, lookup, template_string, dicts, r_arg>>

(* lines 143-145: the next item of the dict is substituted *)
RenderLoop ==
    /\ r_pc = "line143"
    /\ r_items # <<>>
    /\ result' = LoopBody(result, Head(r_items))
    /\ r_items' = Tail(r_items)
    /\ UNCHANGED <<consumer, service, builder, lookup, template_string, dicts, r_pc, r_arg, outputs>>

(* line 147: the loop is over, result is returned *)
RenderReturn ==
    /\ r_pc = "line143"
    /\ r_items = <<>>
    /\ outputs' = Append(outputs, [arg |-> r_arg, value |-> result])
    /\ dicts' = [dicts EXCEPT ![r_arg] = AfterIteration(@)]
    /\ r_pc' = "idle"
    /\ result' = <<>>
    /\ UNCHANGED <<consumer, service, builder, lookup, template_string, r_arg, r_items>>

NextRender ==
    \/ \E k \in 1..2 : RenderCall(k)
    \/ RenderCheck
    \/ RenderLoop
    \/ RenderReturn

SpecRender == InitRender /\ [][NextRender]_vars

(* ------------------- building the data payload ------------------------- *)
(* process_message has decoded a message and reached line 360 *)
InitPayload ==
    /\ InitConsumer
    /\ ServiceIdle
    /\ template_string = PyNone
    /\ dicts = <<(<<>>), (<<>>)>>
    /\ RendererIdle
    /\ LookupIdle
    /\ p_message \in PayloadMessages
    /\ p_pc = "line361"
    /\ data_payload = PyEmptyDict
    /\ handed = NotHanded

(* lines 361-364: notification_id and link *)
PayloadLiteral ==
    /\ p_pc = "line361"
    /\ data_payload' = BasePayload(Get(p_message, "notification_id", PyNone),
                                   Get(p_message, "variables", PyEmptyDict))
    /\ p_pc' = "line367"
    /\ UNCHANGED <<consumer, service, renderer, lookup, p_message, handed>>

(* lines 367-368: meta, when it is there and not empty, is merged into the payload *)
PayloadMeta ==
    /\ p_pc = "line367"
    /\ LET meta == Get(Get(p_message, "variables", PyEmptyDict), "meta", PyNone)
       IN  data_payload' = IF Truthy(meta) THEN dict_update(data_payload, meta) ELSE data_payload
    /\ p_pc' = "line371"
    /\ UNCHANGED <<consumer, service, renderer, lookup, p_message, handed>>

(* lines 371-377: send_push_notification_fcm(..., data=data_payload) *)
PayloadSend ==
    /\ p_pc = "line371"
    /\ handed' = data_payload
    /\ p_pc' = "sent"
    /\ UNCHANGED <<consumer, service, renderer, lookup, p_message, data_payload>>

NextPayload ==
    \/ PayloadLiteral
    \/ PayloadMeta
    \/ PayloadSend

SpecPayload == InitPayload /\ [][NextPayload]_vars

(* ------------------------------ a lookup ------------------------------- *)
(* process_message, handling a message at some retry_count, calls one of the two lookup
   functions, and the HTTP call ends in one of the ways it can end *)
InitLookup ==
    /\ InitConsumer
    /\ ServiceIdle
    /\ template_string = PyNone
    /\ dicts = <<(<<>>), (<<>>)>>
    /\ RendererIdle
    /\ BuilderIdle
    /\ \/ l_function = "fetch_user_data" /\ l_answer \in Answers(UserResponses)
       \/ l_function = "fetch_template_data" /\ l_answer \in Answers(TemplateResponses)
    /\ \E rc \in 0..MAX_RETRY_COUNT :
          l_message = [notification_id |-> "n1", user_id |-> "u1", template_code |-> "t1", retry_count |-> rc]
    /\ l_pc = "requests.get"
    /\ l_value = NoData
    /\ l_decision = NoDecision

(* lines 85-104 and 115-134: the function returns, or the exception leaves it *)
LookupReturn ==
    /\ l_pc = "requests.get"
    /\ IF l_answer.outcome \in LookupExceptions /\ ~LookupCatches(l_answer.outcome)
       THEN /\ l_pc' = "raised"
            /\ UNCHANGED l_value
       ELSE /\ l_pc' = "returned"
            /\ l_value' = IF l_function = "fetch_user_data"
                          THEN fetch_user_data(l_answer)
                          ELSE fetch_template_data(l_answer)
    /\ UNCHANGED <<consumer, service, renderer, builder, l_function, l_answer, l_message, l_decision>>

(* lines 322-344 and 348-353: process_message decides on the value returned *)
LookupDecide ==
    /\ l_pc = "returned"
    /\ l_decision' = IF l_function = "fetch_user_data"
                     THEN UserDecision(l_value)
                     ELSE TemplateDecision(l_value, l_message)
    /\ l_pc' = "decided"
    /\ UNCHANGED <<consumer, service, renderer, builder, l_function, l_answer, l_message, l_value>>

NextLookup ==
    \/ LookupReturn
    \/ LookupDecide

SpecLookup == InitLookup /\ [][NextLookup]_vars

(* ------------------------- reading a pass ------------------------------ *)
(* the positions of the calls of one operation in the trace of the pass *)
Calls(c, name) == {i \in DOMAIN trace[c] : trace[c][i].op = name}

(* the accepted publishes of the pass whose routing key is in Q *)
PublishesTo(c, Q) == {i \in Calls(c, "basic_publish") : trace[c][i].routing_key \in Q}

(* process_message has made its last call and is about to return *)
Finished(c) == pc[c] = "return"

(* the pass received a JSON object *)
ReceivedObject(c) == body[c] # NoBody /\ body[c].kind = "object"

(* the retry_count of the message as received *)
ReceivedRc(c) == Get(json_loads(body[c]), "retry_count", 0)

(* the gateway send of the pass reported failure *)
SendFailed(c) == \E i \in Calls(c, "send_push_notification_fcm") : ~trace[c][i].success

(* the pass acknowledged the delivery once and did not reject it *)
AckedOnce(c) ==
    /\ Cardinality(Calls(c, "basic_ack")) = 1
    /\ Calls(c, "basic_nack") = {}
    /\ unacked[c] = NoBody

(* the pass reported exactly this status *)
ReportedOnce(c, st, err) ==
    /\ Cardinality(Calls(c, "update_notification_status")) = 1
    /\ \A i \in Calls(c, "update_notification_status") :
          /\ trace[c][i].status = st
          /\ trace[c][i].error = err
          /\ trace[c][i].notification_id = Get(json_loads(body[c]), "notification_id", None)

(* the delay tiers as the specification lists them *)
TierDelay(k) == CASE k = 0 -> 60 [] k = 1 -> 300 [] k = 2 -> 900
TierQueue(k) == CASE k = 0 -> "push.retry.60" [] k = 1 -> "push.retry.300" [] k = 2 -> "push.retry.900"

(* C1: a pass that received retry_count k in {0,1,2} and whose gateway send failed
   calls schedule_retry exactly once, with delay 60/300/900 for k = 0/1/2 and with the
   received message changed only in retry_count = k+1; unless the broker raises, exactly
   one copy, with that body, is published to push.retry.<delay>; nothing goes to the
   dead-letter queue, and the original is acknowledged. *)
C1_RetryOnFailure ==
    \A c \in Consumers :
        (Finished(c) /\ ReceivedObject(c) /\ ReceivedRc(c) \in 0..2 /\ SendFailed(c)) =>
            LET m == json_loads(body[c])
                k == ReceivedRc(c)
                copy == [x \in DOMAIN m \cup {"retry_count"} |-> IF x = "retry_count" THEN k + 1 ELSE m[x]]
            IN  /\ Cardinality(Calls(c, "schedule_retry")) = 1
                /\ \A i \in Calls(c, "schedule_retry") :
                      /\ trace[c][i].delay = TierDelay(k)
                      /\ trace[c][i].message = copy
                      /\ Cardinality(Calls(c, "basic_publish")) = (IF trace[c][i].raised THEN 0 ELSE 1)
                /\ \A i \in Calls(c, "basic_publish") :
                      /\ trace[c][i].routing_key = TierQueue(k)
                      /\ trace[c][i].body = json_dumps(copy)
                      /\ BagIn(<<TierQueue(k), json_dumps(copy)>>, published)
                /\ Calls(c, "move_to_dlq") = {}
                /\ AckedOnce(c)

(* a pass that received retry_count 2 failed to send and its copy went to push.retry.900 *)
C1_Witness ==
    \E c \in Consumers :
        /\ Finished(c) /\ ReceivedObject(c) /\ ReceivedRc(c) = 2 /\ SendFailed(c)
        /\ PublishesTo(c, {"push.retry.900"}) # {}

(* C2: a pass that received retry_count 3 and whose gateway send failed calls move_to_dlq
   once with reason "Max retries exceeded" (unless the broker raises, the received message
   plus failure_reason and failed_at is published to failed.queue), reports 'failed',
   acknowledges the original and publishes to no retry queue; no body with a retry_count
   above 3 is ever published to a retry queue, and nothing leaves the dead-letter queue. *)
C2_DeadLetterAtMax ==
    /\ \A c \in Consumers :
        (Finished(c) /\ ReceivedObject(c) /\ ReceivedRc(c) = MAX_RETRY_COUNT /\ SendFailed(c)) =>
            LET m == json_loads(body[c])
                dead == [x \in DOMAIN m \cup {"failure_reason", "failed_at"} |->
                            IF x = "failure_reason" THEN "Max retries exceeded"
                            ELSE IF x = "failed_at" THEN "utcnow" ELSE m[x]]
            IN  /\ Cardinality(Calls(c, "move_to_dlq")) = 1
                /\ \A i \in Calls(c, "move_to_dlq") :
                      /\ trace[c][i].reason = "Max retries exceeded"
                      /\ trace[c][i].message = m
                      /\ Cardinality(Calls(c, "basic_publish")) = (IF trace[c][i].raised THEN 0 ELSE 1)
                /\ \A i \in Calls(c, "basic_publish") :
                      /\ trace[c][i].routing_key = "failed.queue"
                      /\ trace[c][i].body = json_dumps(dead)
                /\ ReportedOnce(c, "failed", "Max retries exceeded")
                /\ AckedOnce(c)
                /\ Calls(c, "schedule_retry") = {}
    /\ \A e \in BagToSet(published) :
          e[1] \in RetryQueues => Get(json_loads(e[2]), "retry_count", 0) <= MAX_RETRY_COUNT
    /\ \A e \in BagToSet(published) :
          e[1] = "failed.queue" => CopiesIn(e[2], queues["failed.queue"]) = CopiesIn(e, published)

(* a pass that received retry_count 3 failed to send and dead-lettered the message *)
C2_Witness ==
    \E c \in Consumers :
        /\ Finished(c) /\ ReceivedObject(c) /\ ReceivedRc(c) = 3 /\ SendFailed(c)
        /\ PublishesTo(c, {"failed.queue"}) # {}

(* ----------------------- reading the copies ---------------------------- *)
IdOf(b) == Get(json_loads(b), "notification_id", None)
RcOf(b) == Get(json_loads(b), "retry_count", 0)

(* the bodies the consumers have published to retry queues / to the dead-letter queue *)
RetryPublished == {e \in BagToSet(published) : e[1] \in RetryQueues}
DlqPublished == {e \in BagToSet(published) : e[1] = DLQ_NAME}

(* every body that is on a queue or held unacknowledged *)
LiveBodies ==
    UNION {BagToSet(queues[q]) : q \in QueueNames} \cup ({unacked[c] : c \in Consumers} \ {NoBody})

(* C3 as stated: the item is dead-lettered after its third failed send, so the gateway
   send is never invoked a fourth time for a notification_id *)
C3_NoFourthSend ==
    \A n \in NotificationIds : sends[n] <= 3

(* C3 amended: without redelivery the pass that receives retry_count k makes send number
   k+1 of its notification_id; the send is invoked at most MAX_RETRY_COUNT + 1 = 4 times,
   and a notification is dead-lettered as "Max retries exceeded" only after its fourth
   send, by the pass that received retry_count 3. *)
C3_FourAttempts ==
    \A n \in NotificationIds :
        /\ sends[n] <= 4
        /\ \A c \in Consumers :
              (pc[c] = "send_push_notification_fcm" /\ Get(message[c], "notification_id", None) = n)
                  => sends[n] = retry_count[c]
        /\ \A e \in DlqPublished :
              (IdOf(e[2]) = n /\ json_loads(e[2])["failure_reason"] = "Max retries exceeded")
                  => (sends[n] = 4 /\ RcOf(e[2]) = 3)
        /\ \A c \in Consumers :
              (Finished(c) /\ ReceivedObject(c) /\ IdOf(body[c]) = n /\ SendFailed(c) /\ sends[n] < 4)
                  => Calls(c, "move_to_dlq") = {}

(* the fourth send of a notification failed and it was dead-lettered *)
C3_Witness ==
    \E n \in NotificationIds :
        /\ sends[n] = 4
        /\ \E e \in DlqPublished :
              IdOf(e[2]) = n /\ json_loads(e[2])["failure_reason"] = "Max retries exceeded"

(* C4: every copy of a work item, wherever it is, carries a retry_count in 0..3; a copy
   published to a retry queue carries the received retry_count plus one, sits on the queue
   of the tier of the received count, and its predecessor (retry_count one less) was
   published before it; a dead-lettered copy carries the received retry_count. *)
C4_RetryCountMonotone ==
    /\ \A b \in LiveBodies : Decodable(b) => RcOf(b) \in 0..3
    /\ \A e \in RetryPublished :
          /\ RcOf(e[2]) \in 1..3
          /\ e[1] = TierQueue(RcOf(e[2]) - 1)
          /\ RcOf(e[2]) > 1 =>
                \E p \in RetryPublished : IdOf(p[2]) = IdOf(e[2]) /\ RcOf(p[2]) = RcOf(e[2]) - 1
    /\ \A e \in DlqPublished : RcOf(e[2]) \in 0..3
    /\ \A c \in Consumers :
          /\ \A i \in Calls(c, "schedule_retry") : trace[c][i].message["retry_count"] = ReceivedRc(c) + 1
          /\ \A i \in Calls(c, "move_to_dlq") : Get(trace[c][i].message, "retry_count", 0) = ReceivedRc(c)
          /\ (ReceivedObject(c) /\ pc[c] # "json_loads") => retry_count[c] = ReceivedRc(c)

(* a copy with retry_count 3 is back on the main queue while copies 1 and 2 were published *)
C4_Witness ==
    /\ \E b \in BagToSet(queues[QUEUE_NAME]) : Decodable(b) /\ RcOf(b) = 3
    /\ \A k \in 1..3 : \E e \in RetryPublished : RcOf(e[2]) = k

(* C5: schedule_retry and move_to_dlq are called only while the original delivery is
   still unacknowledged, every publish of a pass precedes its basic_ack, and after the
   publish the original stays with the broker, unacknowledged, until basic_ack is made. *)
C5_PublishBeforeAck ==
    \A c \in Consumers :
        LET pubs == Calls(c, "schedule_retry") \cup Calls(c, "move_to_dlq") \cup Calls(c, "basic_publish")
        IN  /\ pc[c] \in {"schedule_retry", "move_to_dlq"} =>
                  (unacked[c] = body[c] /\ Calls(c, "basic_ack") = {})
            /\ \A i \in pubs : \A j \in Calls(c, "basic_ack") : i < j
            /\ (pc[c] = "basic_ack" /\ pubs # {}) => (unacked[c] = body[c] /\ unacked[c] # NoBody)
            /\ (Finished(c) /\ pubs # {}) => AckedOnce(c)

(* a retry copy has been published and the original is not acknowledged yet *)
C5_Witness ==
    \E c \in Consumers : pc[c] = "basic_ack" /\ PublishesTo(c, RetryQueues) # {} /\ unacked[c] = body[c]

(* a lookup of the pass yielded no data *)
LookupFailed(c, name) == \E i \in Calls(c, name) : ~trace[c][i].found

(* C6 as stated: whenever a pass has acknowledged a message whose send failed or whose
   user/template lookup yielded nothing, a copy of the item has been published to a
   retry queue or to the dead-letter queue, also when a broker call raised *)
C6_NeverLost ==
    \A c \in Consumers :
        (/\ Calls(c, "basic_ack") # {}
         /\ \/ SendFailed(c)
            \/ LookupFailed(c, "fetch_user_data")
            \/ LookupFailed(c, "fetch_template_data"))
            => Calls(c, "basic_publish") # {}

(* C7 as stated: at most one retry copy with a given (notification_id, retry_count) is
   ever published, also when the original is redelivered after a connection failure *)
C7_NoDuplicateRetryCopy ==
    \A n \in NotificationIds : \A k \in 1..MAX_RETRY_COUNT :
        LET S == {e \in RetryPublished : IdOf(e[2]) = n /\ RcOf(e[2]) = k}
        IN  /\ Cardinality(S) <= 1
            /\ \A e \in S : CopiesIn(e, published) <= 1

(* the only call of a rejecting pass *)
NackNoRequeue == [op |-> "basic_nack", requeue |-> FALSE]

(* C8: a pass whose body is not decodable JSON makes one call only, basic_nack with
   requeue=False: no ack, no publish, no status report, no lookup and no send; such a
   body never reaches a retry queue or the dead-letter queue. *)
C8_UndecodableRejected ==
    /\ \A c \in Consumers :
          (body[c] # NoBody /\ ~Decodable(body[c])) =>
              /\ pc[c] \in {"json_loads", "basic_nack", "return"}
              /\ trace[c] = (IF pc[c] = "return" THEN <<NackNoRequeue>> ELSE <<>>)
              /\ pc[c] = "return" => unacked[c] = NoBody
              /\ pc[c] # "return" => unacked[c] = body[c]
    /\ \A q \in QueueNames \ {QUEUE_NAME} : \A b \in BagToSet(queues[q]) : Decodable(b)
    /\ \A e \in BagToSet(published) : Decodable(e[2])

(* a pass with an undecodable body has rejected it *)
C8_Witness ==
    \E c \in Consumers : Finished(c) /\ body[c] = Garbage /\ trace[c] = <<NackNoRequeue>>

(* C9 as stated: a pass whose body decodes to an object without notification_id makes
   one call only, basic_nack with requeue=False *)
C9_MissingIdRejected ==
    \A c \in Consumers :
        (ReceivedObject(c) /\ "notification_id" \notin DOMAIN json_loads(body[c])) =>
            /\ pc[c] \in {"json_loads", "basic_nack", "return"}
            /\ trace[c] = (IF pc[c] = "return" THEN <<NackNoRequeue>> ELSE <<>>)

(* the outcome of a pass whose lookup yielded no data, for the reason r *)
DeadLetteredAs(c, r) ==
    LET m == json_loads(body[c])
        dead == [x \in DOMAIN m \cup {"failure_reason", "failed_at"} |->
                    IF x = "failure_reason" THEN r ELSE IF x = "failed_at" THEN "utcnow" ELSE m[x]]
    IN  /\ Cardinality(Calls(c, "move_to_dlq")) = 1
        /\ \A i \in Calls(c, "move_to_dlq") :
              /\ trace[c][i].reason = r
              /\ trace[c][i].message = m
              /\ Cardinality(Calls(c, "basic_publish")) = (IF trace[c][i].raised THEN 0 ELSE 1)
        /\ \A i \in Calls(c, "basic_publish") :
              /\ trace[c][i].routing_key = "failed.queue"
              /\ trace[c][i].body = json_dumps(dead)
        /\ ReportedOnce(c, "failed", r)
        /\ AckedOnce(c)
        /\ Calls(c, "send_push_notification_fcm") = {}
        /\ Calls(c, "schedule_retry") = {}

(* C10: a pass whose user lookup (template lookup) yields no data calls move_to_dlq once
   with "User not found" ("Template not found"), publishes the received message plus
   failure_reason and failed_at once to failed.queue unless the broker raises, reports
   'failed' with the same reason, acknowledges, and neither sends nor schedules a retry,
   whatever the retry_count. *)
C10_NotFoundDeadLettered ==
    \A c \in Consumers :
        (Finished(c) /\ ReceivedObject(c)) =>
            /\ LookupFailed(c, "fetch_user_data") =>
                  (DeadLetteredAs(c, "User not found") /\ Calls(c, "fetch_template_data") = {})
            /\ LookupFailed(c, "fetch_template_data") => DeadLetteredAs(c, "Template not found")

(* a retried message (retry_count 1) is dead-lettered because its user is gone *)
C10_Witness ==
    \E c \in Consumers :
        /\ Finished(c) /\ ReceivedObject(c) /\ ReceivedRc(c) = 1
        /\ LookupFailed(c, "fetch_user_data")
        /\ PublishesTo(c, {DLQ_NAME}) # {}

(* ------------------------ reading the profile -------------------------- *)
(* the profile the user lookup of the pass returned, NoData when there was none *)
Profile(c) ==
    IF Calls(c, "fetch_user_data") = {} THEN NoData
    ELSE trace[c][CHOOSE i \in Calls(c, "fetch_user_data") : TRUE].data

HasToken(c) == Profile(c) # NoData /\ Get(Profile(c), "push_token", None) \notin {None, ""}
NoToken(c) == Profile(c) # NoData /\ Get(Profile(c), "push_token", None) \in {None, ""}
OptedOut(c) ==
    /\ Profile(c) # NoData
    /\ IsDict(Get(Profile(c), "preferences", EmptyDict))
    /\ Get(Get(Profile(c), "preferences", EmptyDict), "push", TRUE) = FALSE

(* the pass published nothing and called neither move_to_dlq nor schedule_retry *)
NothingPublished(c) ==
    /\ Calls(c, "basic_publish") = {}
    /\ Calls(c, "move_to_dlq") = {}
    /\ Calls(c, "schedule_retry") = {}

(* C11: a pass whose recipient profile has no push_token calls move_to_dlq once with
   "Missing push token" (the received message plus failure_reason and failed_at goes to
   failed.queue unless the broker raises), reports 'failed' with that reason, acknowledges
   exactly once, and makes no template lookup, no gateway send and no retry publish. *)
C11_MissingTokenDeadLettered ==
    \A c \in Consumers :
        (Finished(c) /\ ReceivedObject(c) /\ NoToken(c)) =>
            /\ DeadLetteredAs(c, "Missing push token")
            /\ Calls(c, "fetch_template_data") = {}
            /\ PublishesTo(c, RetryQueues) = {}

(* a profile without push_token (and with push disabled) had its message dead-lettered *)
C11_Witness ==
    \E c \in Consumers :
        /\ Finished(c) /\ ReceivedObject(c) /\ NoToken(c) /\ OptedOut(c)
        /\ PublishesTo(c, {DLQ_NAME}) # {}

(* the outcome of a pass that skips: acknowledged, 'skipped' reported, nothing published *)
Skipped(c) ==
    /\ AckedOnce(c)
    /\ ReportedOnce(c, "skipped", "User disabled push notifications")
    /\ NothingPublished(c)
    /\ Calls(c, "send_push_notification_fcm") = {}

(* C12 as stated: every pass whose recipient profile has preferences.push = false
   acknowledges, reports 'skipped' and puts nothing on the dead-letter or a retry queue *)
C12_OptOutNeverDeadLettered ==
    \A c \in Consumers :
        (Finished(c) /\ ReceivedObject(c) /\ OptedOut(c)) => Skipped(c)

(* C12 amended: a pass whose recipient profile has a push_token and preferences.push =
   false acknowledges once, reports 'skipped' and publishes nothing; a profile with
   preferences.push = false and no push_token is dead-lettered as "Missing push token". *)
C12_OptOutWithTokenSkipped ==
    \A c \in Consumers :
        (Finished(c) /\ ReceivedObject(c) /\ OptedOut(c)) =>
            /\ HasToken(c) => Skipped(c)
            /\ NoToken(c) =>
                  (Calls(c, "move_to_dlq") # {} /\ ReportedOnce(c, "failed", "Missing push token"))

(* an opted-out recipient with a token: a retried message is skipped *)
C12_Witness ==
    \E c \in Consumers :
        /\ Finished(c) /\ ReceivedObject(c) /\ ReceivedRc(c) = 1
        /\ OptedOut(c) /\ HasToken(c)
        /\ Calls(c, "basic_ack") # {}

(* the gateway send of the pass reported success *)
SendSucceeded(c) == \E i \in Calls(c, "send_push_notification_fcm") : trace[c][i].success

(* C13: a pass whose gateway send reports success acknowledges once, reports 'delivered'
   without an error, and publishes nothing to a retry queue or to the dead-letter queue,
   whatever the retry_count of the message; its last call is the status report. *)
C13_SuccessTerminal ==
    \A c \in Consumers :
        (Finished(c) /\ SendSucceeded(c)) =>
            /\ AckedOnce(c)
            /\ ReportedOnce(c, "delivered", None)
            /\ NothingPublished(c)
            /\ trace[c][Len(trace[c])].op = "update_notification_status"

(* a message that had used up its retries (retry_count 3) was delivered *)
C13_Witness ==
    \E c \in Consumers :
        /\ Finished(c) /\ SendSucceeded(c) /\ ReceivedRc(c) = MAX_RETRY_COUNT
        /\ Calls(c, "basic_ack") # {}

(* ----------------------- unexpected exceptions -------------------------- *)
(* a statement of the try block raises in this pass: the body is a JSON value other than
   an object, the profile's preferences are not a dict, or (once the template is there)
   "variables" or its "meta" is not a dict *)
Raises(c) ==
    /\ body[c] # NoBody /\ Decodable(body[c])
    /\ \/ ~IsDict(json_loads(body[c]))
       \/ HasToken(c) /\ ~IsDict(Get(Profile(c), "preferences", EmptyDict))
       \/ /\ \E i \in Calls(c, "fetch_template_data") : trace[c][i].found
          /\ PayloadRaises(json_loads(body[c]))

(* the calls of the pass other than the two lookups *)
Effects(c) == SelectSeq(trace[c], LAMBDA e : e.op \notin {"fetch_user_data", "fetch_template_data"})

(* the step in which consumer c rejects its delivery *)
NackStep(c) == pc[c] = "basic_nack" /\ pc'[c] = "return"

(* C14: a pass in which a statement of process_message raises an unexpected exception
   (a JSON body that is not an object; preferences, variables or meta that are not
   dicts) makes, apart from the lookups, one call only, basic_nack with requeue=False:
   no ack, no publish to a retry or dead-letter queue, no status report, no send; and
   the rejecting step removes the delivery from the broker without putting it on any
   queue, so it is never delivered again. *)
C14_ExceptionRejected ==
    /\ [](\A c \in Consumers :
             /\ (Raises(c) /\ Finished(c)) =>
                    (Effects(c) = <<NackNoRequeue>> /\ unacked[c] = NoBody)
             /\ (Raises(c) /\ ~Finished(c)) =>
                    (Effects(c) = <<>> /\ unacked[c] = body[c]
                     /\ pc[c] \in {"json_loads", "basic_nack"}))
    /\ [][\A c \in Consumers :
             NackStep(c) => (unacked[c] = body[c] /\ unacked'[c] = NoBody /\ queues' = queues)]_vars

(* a message whose "variables" is a list was rejected after both lookups had succeeded,
   and is on no queue *)
C14_Witness ==
    \E c \in Consumers :
        /\ Finished(c) /\ Raises(c) /\ body[c] = BadVariablesBody
        /\ Calls(c, "fetch_template_data") # {}
        /\ Calls(c, "basic_nack") # {}
        /\ body[c] \notin LiveBodies

(* ---------------------------- status report ---------------------------- *)
(* the step in which consumer c makes the status report *)
StatusStep(c) ==
    /\ pc[c] = "update_notification_status"
    /\ Len(trace'[c]) = Len(trace[c]) + 1

(* C15: the status report is the last call of its pass and is made after the settlement:
   whatever the outcome of the POST, the step that makes it changes no queue, no
   delivery and no publish, and process_message returns normally right after it (no
   nack, no further call), so the settlement and the published messages of a pass are
   the same for every outcome of the status report. *)
C15_StatusOutcomeIgnored ==
    /\ [](\A c \in Consumers : \A i \in Calls(c, "update_notification_status") :
             /\ i = Len(trace[c])
             /\ Finished(c)
             /\ AckedOnce(c)
             /\ \A j \in Calls(c, "basic_ack") \cup Calls(c, "basic_publish") : j < i)
    /\ [][\A c \in Consumers :
             StatusStep(c) =>
                 /\ pc'[c] = "return"
                 /\ <<queues, declared, unacked, published, sends>>' = <<queues, declared, unacked, published, sends>>]_vars

(* a pass that scheduled a retry has reported 'pending' and is about to return *)
C15_Witness ==
    \E c \in Consumers :
        /\ Finished(c)
        /\ PublishesTo(c, RetryQueues) # {}
        /\ trace[c][Len(trace[c])].op = "update_notification_status"
        /\ trace[c][Len(trace[c])].status = "pending"

(* ------------------------- swallowed broker errors --------------------- *)
(* the broker raised inside the helper the pass called *)
HelperRaised(c, name) == \E i \in Calls(c, name) : trace[c][i].raised

(* C16: when declaring or publishing raises inside schedule_retry, the pass still
   acknowledges the original once, does not nack and reports 'pending' with "Retry
   scheduled (attempt k+1)"; when it raises inside move_to_dlq, the pass still
   acknowledges once, does not nack and reports 'failed' with the reason of the branch;
   in both cases nothing was published and process_message returns normally. *)
C16_PublishErrorSwallowed ==
    \A c \in Consumers :
        /\ HelperRaised(c, "schedule_retry") =>
              /\ Calls(c, "basic_publish") = {} /\ Calls(c, "basic_nack") = {}
              /\ pc[c] \in {"basic_ack", "update_notification_status", "return"}
              /\ Finished(c) =>
                    (AckedOnce(c) /\ ReportedOnce(c, "pending", AttemptText(ReceivedRc(c) + 1)))
        /\ HelperRaised(c, "move_to_dlq") =>
              /\ Calls(c, "basic_publish") = {} /\ Calls(c, "basic_nack") = {}
              /\ pc[c] \in {"basic_ack", "update_notification_status", "return"}
              /\ Finished(c) =>
                    /\ AckedOnce(c)
                    /\ \A i \in Calls(c, "move_to_dlq") : ReportedOnce(c, "failed", trace[c][i].reason)

(* the retry of a message with retry_count 1 could not be published; it was acknowledged *)
C16_Witness ==
    \E c \in Consumers :
        /\ Finished(c) /\ HelperRaised(c, "schedule_retry") /\ ReceivedRc(c) = 1
        /\ Calls(c, "basic_ack") # {}

(* ----------------------------- retry queues ---------------------------- *)
(* a step that takes the body b off the retry queue q *)
Leaves(q, b) == CopiesIn(b, queues'[q]) < CopiesIn(b, queues[q])

(* nothing happens at any consumer in this step *)
NoConsumerActs == <<unacked, pc, todo, body, message, retry_count, reason, delay, status, trace>>' =
                  <<unacked, pc, todo, body, message, retry_count, reason, delay, status, trace>>

(* C17: a retry queue exists only under one of the names push.retry.60/300/900, one per
   delay, and is declared with x-message-ttl = delay * 1000 ms and a dead-letter route to
   the main queue; every later declaration in a pass uses the arguments the queue
   already has, and once declared the arguments never change. A body on a retry queue
   is not delivered to a consumer: whenever a step takes a body off a retry queue, no
   consumer takes part in the step, the body is put unchanged on the main queue, and
   nothing else moves; whenever a consumer receives a delivery, it comes off the main
   queue. *)
C17_RetryQueueTopology ==
    /\ [](/\ \A i \in DOMAIN RETRY_DELAYS : \A j \in DOMAIN RETRY_DELAYS :
                i # j => RetryQueueName(RETRY_DELAYS[i]) # RetryQueueName(RETRY_DELAYS[j])
          /\ \A i \in DOMAIN RETRY_DELAYS :
                LET q == RetryQueueName(RETRY_DELAYS[i])
                IN  /\ declared[q] # NotDeclared =>
                          /\ declared[q].x_message_ttl = RETRY_DELAYS[i] * 1000
                          /\ declared[q].x_dead_letter_exchange = ""
                          /\ declared[q].x_dead_letter_routing_key = QUEUE_NAME
                    /\ declared[q] = NotDeclared => queues[q] = EmptyBag
          /\ \A c \in Consumers : \A i \in Calls(c, "queue_declare") :
                declared[trace[c][i].queue] = trace[c][i].arguments
          /\ \A c \in Consumers : \A i \in PublishesTo(c, RetryQueues) :
                \E j \in Calls(c, "schedule_retry") :
                    trace[c][i].routing_key = RetryQueueName(trace[c][j].delay))
    /\ [][/\ \A q \in QueueNames : declared[q] # NotDeclared => declared'[q] = declared[q]
          /\ \A q \in RetryQueues : \A b \in BagToSet(queues[q]) :
                Leaves(q, b) =>
                    /\ NoConsumerActs
                    /\ queues' = Enqueue(Dequeue(queues, q, b), QUEUE_NAME, b)
          /\ \A c \in Consumers :
                (unacked[c] = NoBody /\ unacked'[c] # NoBody) =>
                    /\ BagIn(unacked'[c], queues[QUEUE_NAME])
                    /\ queues' = Dequeue(queues, QUEUE_NAME, unacked'[c])]_vars

(* a copy that was published to push.retry.300 has come back to the main queue unchanged
   while the queue keeps the arguments it was declared with *)
C17_Witness ==
    \E e \in RetryPublished :
        /\ e[1] = "push.retry.300"
        /\ BagIn(e[2], queues[QUEUE_NAME])
        /\ queues["push.retry.300"] = EmptyBag
        /\ declared["push.retry.300"] = RetryQueueArguments(300)

(* ------------------------------ rendering ------------------------------ *)
(* the placeholders of d that start the string s *)
TokensAt(s, d) ==
    {i \in DOMAIN d : /\ Len(s) >= Len(Placeholder(d[i][1]))
                      /\ SubSeq(s, 1, Len(Placeholder(d[i][1]))) = Placeholder(d[i][1])}

(* the template with every {{key}} token of a key of d replaced by str of its value,
   everything else, and the values put in, left as they are *)
RECURSIVE Substituted(_, _)
Substituted(s, d) ==
    IF s = <<>> THEN <<>>
    ELSE IF TokensAt(s, d) = {} THEN <<s[1]>> \o Substituted(Tail(s), d)
    ELSE LET i == CHOOSE i \in TokensAt(s, d) : TRUE
         IN  str(d[i][2]) \o Substituted(SubSeq(s, Len(Placeholder(d[i][1])) + 1, Len(s)), d)

(* C18 as stated: every call returns "" for an absent or empty template, and otherwise
   the template with every occurrence of each {{name}} token whose name is a key replaced
   by the string form of its value and every other placeholder left unchanged *)
C18_RendersEveryToken ==
    \A n \in DOMAIN outputs :
        outputs[n].value = (IF Blank(template_string) THEN <<>>
                            ELSE Substituted(template_string.chars, dicts[outputs[n].arg]))

(* C19 as stated: two calls with the same template and the same key/value pairs return
   the same string, whatever the insertion order of the pairs *)
C19_OrderIrrelevant ==
    \A n \in DOMAIN outputs : \A k \in DOMAIN outputs :
        outputs[n].value = outputs[k].value

(* C20: two calls of render_template_variables with the same template and the same dict
   return the same string, and no step of a call changes the template or the dict
   (the function has no other state that outlives a call). *)
C20_RenderDeterministic ==
    /\ [](\A n \in DOMAIN outputs : \A k \in DOMAIN outputs :
             outputs[n].arg = outputs[k].arg => outputs[n].value = outputs[k].value)
    /\ [](r_pc = "idle" => (result = <<>> /\ r_items = <<>>))
    /\ [][template_string' = template_string /\ dicts' = dicts]_vars

(* "Hi {{name}}" was rendered twice with {name: Ada} and gave "Hi Ada" both times *)
C20_Witness ==
    /\ Len(outputs) = 2
    /\ outputs[1].arg = outputs[2].arg
    /\ template_string = PyStr(Chars_Hi_name)
    /\ outputs[2].value = <<"H", "i", " ", "A", "d", "a">>

(* ------------------------------ data payload --------------------------- *)
PayloadKeys == {"notification_id", "link"}

(* the keys of variables.meta that process_message merges: none when meta is absent or empty *)
MetaOf(m) == Get(Get(m, "variables", PyEmptyDict), "meta", PyEmptyDict)

(* C21: the data handed to the gateway always has the keys notification_id and link; its
   keys are these two and the keys of variables.meta, nothing else; every key of meta
   carries meta's value, also when the key is notification_id or link; link, when meta
   does not set it, is the string form of variables.link, or "" when variables has no
   link, and notification_id, when meta does not set it, is the message's *)
C21_DataPayload ==
    handed # NotHanded =>
        LET variables == Get(p_message, "variables", PyEmptyDict)
            meta == MetaOf(p_message)
        IN  /\ PayloadKeys \subseteq DOMAIN handed
            /\ DOMAIN handed = PayloadKeys \cup DOMAIN meta
            /\ \A k \in DOMAIN meta : handed[k] = meta[k]
            /\ "notification_id" \notin DOMAIN meta
                   => handed["notification_id"] = Get(p_message, "notification_id", PyNone)
            /\ "link" \notin DOMAIN meta
                   => handed["link"] = IF "link" \in DOMAIN variables
                                       THEN PyStr(str(variables["link"]))
                                       ELSE PyStr(<<>>)

(* a payload was handed over whose link is meta's and not the one of variables.link *)
C21_Witness ==
    /\ handed # NotHanded
    /\ "link" \in DOMAIN Get(p_message, "variables", PyEmptyDict)
    /\ "link" \in DOMAIN MetaOf(p_message)
    /\ handed["link"] = MetaOf(p_message)["link"]
    /\ handed["link"] # PyStr(str(Get(p_message, "variables", PyEmptyDict)["link"]))

(* ------------------------- dead-lettered copies ------------------------ *)
AddedKeys == {"failure_reason", "failed_at"}

(* dead is the message received plus the two added keys *)
Extends(dead, received) ==
    /\ AddedKeys \cap DOMAIN received = {}
    /\ DOMAIN dead = DOMAIN received \cup AddedKeys
    /\ \A k \in DOMAIN received : dead[k] = received[k]

(* C22: every body a pass publishes to the dead-letter queue is the message that pass
   received, every key with the value it came with (retry_count too, when it is there),
   plus exactly failure_reason and failed_at; every body on the dead-letter queue carries
   these two keys; and the dead-letter queue changes only by one such body at a time,
   added in the move_to_dlq of a pass, and never loses a body *)
C22_DeadLetterCopy ==
    /\ [](/\ \A c \in Consumers : \A i \in PublishesTo(c, {DLQ_NAME}) :
                /\ ReceivedObject(c)
                /\ trace[c][i].body.kind = "object"
                /\ Extends(json_loads(trace[c][i].body), json_loads(body[c]))
                /\ BagIn(trace[c][i].body, queues[DLQ_NAME])
          /\ \A b \in BagToSet(queues[DLQ_NAME]) : b.kind = "object" /\ AddedKeys \subseteq DOMAIN json_loads(b)
          /\ \A e \in DlqPublished : BagIn(e[2], queues[DLQ_NAME]))
    /\ [][queues'[DLQ_NAME] # queues[DLQ_NAME] =>
            \E c \in Consumers : \E b \in BagToSet(queues'[DLQ_NAME]) :
                /\ pc[c] = "move_to_dlq"
                /\ ReceivedObject(c)
                /\ queues'[DLQ_NAME] = queues[DLQ_NAME] (+) SetToBag({b})
                /\ Extends(json_loads(b), json_loads(body[c]))]_vars

(* a message received with retry_count 3 was dead-lettered after its send failed *)
C22_Witness ==
    \E c \in Consumers : \E i \in PublishesTo(c, {DLQ_NAME}) :
        /\ Finished(c)
        /\ SendFailed(c)
        /\ "retry_count" \in DOMAIN json_loads(body[c])
        /\ json_loads(trace[c][i].body)["retry_count"] = MAX_RETRY_COUNT
        /\ json_loads(trace[c][i].body)["failure_reason"] = "Max retries exceeded"

(* ------------------------------ the fleet ------------------------------ *)
(* what the broker has sent on the consumer's channel and the consumer has not settled *)
InFlight(c) == inbox[c] (+) (IF unacked[c] = NoBody THEN EmptyBag ELSE SetToBag({unacked[c]}))

(* the consumer is inside process_message and has not settled the delivery *)
Processing(c) == unacked[c] # NoBody

(* C23: in every interleaving of the consumers of the fleet on the main queue, each
   consumer holds at most one unsettled delivery; the delivery it processes is the one it
   holds; no two consumers hold or process the same message, and a message a consumer
   holds is no longer on the main queue; a consumer is sent a delivery only when it holds
   none, the delivery comes off the main queue and goes to that consumer alone; and
   process_message is called with the delivery the consumer's own channel holds *)
C23_OneAtATime ==
    /\ [](\A c \in Fleet :
            /\ Outstanding(c) <= 1
            /\ Processing(c) => unacked[c] = body[c] /\ pc[c] \notin {"idle", "down"}
            /\ \A b \in BagToSet(InFlight(c)) :
                  /\ ~BagIn(b, queues[QUEUE_NAME])
                  /\ \A d \in Fleet \ {c} : ~BagIn(b, InFlight(d)))
    /\ [][\A c \in Fleet :
            /\ Outstanding(c)' > Outstanding(c) =>
                  /\ Outstanding(c) = 0
                  /\ queues'[QUEUE_NAME] (+) InFlight(c)' = queues[QUEUE_NAME]
                  /\ \A d \in Fleet \ {c} : InFlight(d)' = InFlight(d)
            /\ (unacked'[c] # unacked[c] /\ unacked'[c] # NoBody) =>
                  /\ unacked[c] = NoBody
                  /\ pc[c] = "idle"
                  /\ BagIn(unacked'[c], inbox[c])
                  /\ InFlight(c)' = InFlight(c)]_vars

(* two consumers are inside process_message at once, each with its own message, after
   one of them has settled an earlier delivery *)
C23_Witness ==
    /\ Processing("c1")
    /\ Processing("c2")
    /\ pc["c1"] = "send_push_notification_fcm"
    /\ pc["c2"] = "fetch_user_data"
    /\ pushed = MaxPushes

(* ---------------------------- the consumer loop ------------------------ *)
(* the step is a connection failure / a keyboard interrupt of consumer c *)
ConnectionFails(c) == crashes' = crashes + 1 /\ channel[c] # Closed /\ channel'[c] = Closed
Interrupted(c) == pc[c] # "stopped" /\ pc'[c] = "stopped"

(* the consumer consumes the main queue again on a new channel with prefetch_count 1 *)
Consuming(c) ==
    /\ pc[c] = "idle"
    /\ channel[c] = OpenChannel
    /\ channel[c].prefetch_count = 1
    /\ channel[c].queue = QUEUE_NAME
    /\ declared[QUEUE_NAME] = MainQueueArguments

(* C24: after a connection failure the consumer is in the pause of its loop, not stopped,
   and from there it comes to consume the main queue again on a new channel with
   prefetch_count 1, unless a keyboard interrupt stops it first; it stops on nothing but
   a keyboard interrupt and stays stopped; the delivery that was unsettled when the
   connection failed is back on the main queue, the pass that held it is abandoned
   without an ack, and the consumer never settles it unless the broker delivers it again *)
C24_Reconnects ==
    /\ \A c \in Consumers : (pc[c] = "down") ~> (Consuming(c) \/ pc[c] = "stopped")
    /\ [](\A c \in Consumers : pc[c] \in {"down", "stopped"} =>
              /\ channel[c] = Closed
              /\ unacked[c] = NoBody
              /\ trace[c] = <<>>
              /\ todo[c] = <<>>)
    /\ [][\A c \in Consumers :
            /\ ConnectionFails(c) =>
                  /\ pc'[c] = "down"
                  /\ Calls(c, "basic_ack") = {} \/ unacked[c] = NoBody
                  /\ unacked[c] # NoBody =>
                        CopiesIn(unacked[c], queues'[QUEUE_NAME]) = CopiesIn(unacked[c], queues[QUEUE_NAME]) + 1
            /\ Interrupted(c) => crashes' = crashes
            /\ pc[c] = "stopped" => pc'[c] = "stopped"
            /\ pc[c] = "down" => pc'[c] \in {"down", "idle", "stopped"}]_vars

(* the consumer, reconnected after a connection failure inside a pass, is processing the
   delivery the failure had left unsettled *)
C24_Witness ==
    \E c \in Consumers :
        /\ crashes = 1
        /\ produced = 1
        /\ channel[c] = OpenChannel
        /\ Processing(c)
        /\ pc[c] = "basic_ack"
        /\ queues[QUEUE_NAME] = EmptyBag

(* --------------------------- duplicate sends --------------------------- *)
(* the gateway sends made for a notification at a retry_count *)
SendsAt(n, rc) ==
    CopiesIn([notification_id |-> n, retry_count |-> rc, success |-> TRUE], attempts)
    + CopiesIn([notification_id |-> n, retry_count |-> rc, success |-> FALSE], attempts)

(* C25: delivery is not exactly-once, and the only cause is a connection failure: the
   gateway is sent the notification_id of a notification at the same retry_count once, plus at most
   once more for every connection failure (the witness is the execution in which a
   consumer fails after a successful send and before its basic_ack, the broker redelivers,
   and the send succeeds again); and a successful send is followed by basic_ack as the
   next call, while the delivery is still unsettled *)
C25_DuplicateOnlyAfterFailure ==
    /\ \A a \in BagToSet(attempts) :
          a.notification_id \in NotificationIds => SendsAt(a.notification_id, a.retry_count) <= 1 + crashes
    /\ \A c \in Consumers :
          (pc[c] = "basic_ack" /\ SendSucceeded(c)) =>
              /\ unacked[c] = body[c]
              /\ trace[c][Len(trace[c])].op = "send_push_notification_fcm"

(* after one connection failure the same notification_id was sent successfully twice at
   the same retry_count, and the second pass is about to acknowledge *)
C25_Witness ==
    \E c \in Consumers :
        /\ crashes = 1
        /\ pc[c] = "basic_ack"
        /\ SendSucceeded(c)
        /\ CopiesIn([notification_id |-> IdOf(body[c]), retry_count |-> ReceivedRc(c), success |-> TRUE],
                    attempts) = 2

(* ---------------------------- simulated sends -------------------------- *)
(* C26: when Firebase is not initialised every gateway send reports success: a pass that
   has reached the send has succeeded in it, and when it is finished it has acknowledged
   once and reported 'delivered' without error; no body is ever published to a retry
   queue, no body lies on a retry queue, no retry is scheduled, and nothing is
   dead-lettered with the reason "Max retries exceeded" *)
C26_SimulationDelivers ==
    ~firebase_initialized =>
        /\ RetryPublished = {}
        /\ \A q \in RetryQueues : queues[q] = EmptyBag
        /\ \A b \in BagToSet(queues[DLQ_NAME]) : json_loads(b)["failure_reason"] # "Max retries exceeded"
        /\ \A c \in Consumers :
              /\ Calls(c, "schedule_retry") = {}
              /\ \A i \in Calls(c, "move_to_dlq") : trace[c][i].reason # "Max retries exceeded"
              /\ \A i \in Calls(c, "send_push_notification_fcm") : trace[c][i].success
              /\ (Finished(c) /\ Calls(c, "send_push_notification_fcm") # {}) =>
                    /\ AckedOnce(c)
                    /\ ReportedOnce(c, "delivered", None)

(* without Firebase a pass has sent, acknowledged and reported 'delivered' *)
C26_Witness ==
    \E c \in Consumers :
        /\ ~firebase_initialized
        /\ Finished(c)
        /\ SendSucceeded(c)
        /\ AckedOnce(c)
        /\ ReportedOnce(c, "delivered", None)

(* --------------------------- unavailable lookups ----------------------- *)
(* what process_message does when the user / the template does not exist *)
NotFoundDecision(function) ==
    LET text == IF function = "fetch_user_data" THEN "User not found" ELSE "Template not found"
    IN  [calls |-> <<"move_to_dlq", "basic_ack", "update_notification_status">>,
         reason |-> text, status |-> "failed", error |-> text]

(* C27: a lookup whose HTTP call times out, fails in transport or ends in a status other
   than 200 returns None, and process_message decides on it exactly as on a user or
   template that does not exist: dead-letter with "User not found" / "Template not
   found", acknowledge, report 'failed'; no retry is scheduled, at retry_count 0 as at
   any other; and no such failure leaves the lookup function as an exception *)
C27_UnavailableAsNotFound ==
    /\ l_pc # "raised"
    /\ (l_pc \in {"returned", "decided"} /\ l_answer.outcome \in LookupFailures) => l_value = NoData
    /\ (l_pc = "decided" /\ l_answer.outcome \in LookupFailures) =>
          /\ l_decision = NotFoundDecision(l_function)
          /\ \A i \in DOMAIN l_decision.calls : l_decision.calls[i] # "schedule_retry"

(* the user lookup of a message at retry_count 0 timed out and the message is to be
   dead-lettered as "User not found" *)
C27_Witness ==
    /\ l_pc = "decided"
    /\ l_function = "fetch_user_data"
    /\ l_answer.outcome = "Timeout"
    /\ l_message["retry_count"] = 0
    /\ l_decision.reason = "User not found"
    /\ l_decision.calls[1] = "move_to_dlq"

(* ------------------------ failures of collaborators -------------------- *)
(* a call of the pass to a collaborator failed: a lookup returned None, the gateway
   send returned False, or the broker raised inside schedule_retry / move_to_dlq *)
CollaboratorFailed(c) ==
    \/ LookupFailed(c, "fetch_user_data")
    \/ LookupFailed(c, "fetch_template_data")
    \/ SendFailed(c)
    \/ HelperRaised(c, "schedule_retry")
    \/ HelperRaised(c, "move_to_dlq")

(* the pass is in, or has been through, one of the except branches of lines 403-409 *)
InExceptBranch(c) == pc[c] = "basic_nack" \/ Calls(c, "basic_nack") # {}

(* C28: no failure of a call to a collaborator enters the except branches of
   process_message: a pass is in an except branch only when its body is not decodable or
   when a statement of process_message itself raised on the shape of its data; a pass in
   which a lookup returned None, the send returned False (whatever error the gateway
   raised) or the broker raised inside schedule_retry or move_to_dlq, and in which no
   such statement raised, goes on through its branch and acknowledges *)
C28_NoCollaboratorException ==
    \A c \in Consumers :
        /\ InExceptBranch(c) => (body[c] # NoBody /\ (~Decodable(body[c]) \/ Raises(c)))
        /\ (CollaboratorFailed(c) /\ ~Raises(c)) =>
              /\ ~InExceptBranch(c)
              /\ Finished(c) => AckedOnce(c)

(* a pass in which the send failed and the broker then raised inside schedule_retry has
   acknowledged and returned *)
C28_Witness ==
    \E c \in Consumers :
        /\ Finished(c)
        /\ SendFailed(c)
        /\ HelperRaised(c, "schedule_retry")
        /\ AckedOnce(c)
        /\ ~InExceptBranch(c)

(* ------------------------------ settlement ----------------------------- *)
(* the basic_ack and basic_nack calls of the pass *)
Settlements(c) == Calls(c, "basic_ack") \cup Calls(c, "basic_nack")

(* the step is the basic_ack or the basic_nack of consumer c *)
SettlingStep(c) ==
    /\ pc[c] \in {"basic_ack", "basic_nack"}
    /\ Len(trace'[c]) = Len(trace[c]) + 1

(* C29: a pass never settles its delivery twice, and when process_message is about to
   return it has settled it exactly once: either one basic_ack or one basic_nack with
   requeue=False, never both and never neither, on every path (delivered, skipped, retry
   scheduled, dead-lettered, undecodable, unexpected exception); the settling step takes
   the delivery the broker held for the consumer and puts it on no queue *)
C29_SettledExactlyOnce ==
    /\ [](\A c \in Consumers :
            /\ Cardinality(Settlements(c)) <= 1
            /\ \A i \in Calls(c, "basic_nack") : trace[c][i] = NackNoRequeue
            /\ Settlements(c) # {} => unacked[c] = NoBody
            /\ (pc[c] \notin {"idle", "down", "stopped"} /\ Settlements(c) = {}) => unacked[c] = body[c]
            /\ Finished(c) => Cardinality(Settlements(c)) = 1)
    /\ [][\A c \in Consumers :
            SettlingStep(c) =>
                /\ unacked[c] = body[c]
                /\ unacked'[c] = NoBody
                /\ queues' = queues]_vars

(* a pass that looked up the user and then raised has rejected its delivery once, without
   an ack, and is about to return *)
C29_Witness ==
    \E c \in Consumers :
        /\ Finished(c)
        /\ Calls(c, "fetch_user_data") # {}
        /\ Cardinality(Calls(c, "basic_nack")) = 1
        /\ Calls(c, "basic_ack") = {}
        /\ unacked[c] = NoBody

(* ------------------------- order of the report ------------------------- *)
StatusCalls(c) == Calls(c, "update_notification_status")

(* the step is a connection failure of a consumer that has acknowledged and was about to
   report the status *)
FailsBeforeReport(c) ==
    /\ pc[c] = "update_notification_status"
    /\ pc'[c] = "down"

(* C30: a pass reports the status at most once; the report comes after the basic_ack and
   after every schedule_retry, move_to_dlq and basic_publish of the pass; a pass that
   rejects its delivery reports nothing; and when the connection fails between the ack
   and the report, the pass is abandoned with no report made, nothing is requeued and no
   queue changes, so no later pass makes that report either *)
C30_ReportAfterAck ==
    /\ [](\A c \in Consumers :
            /\ Cardinality(StatusCalls(c)) <= 1
            /\ \A i \in StatusCalls(c) :
                  /\ \E j \in Calls(c, "basic_ack") : j < i
                  /\ \A k \in DOMAIN trace[c] :
                        trace[c][k].op \in {"schedule_retry", "move_to_dlq", "basic_publish", "queue_declare"}
                            => k < i
            /\ InExceptBranch(c) => StatusCalls(c) = {}
            /\ pc[c] = "update_notification_status" => AckedOnce(c) /\ StatusCalls(c) = {})
    /\ [][\A c \in Consumers :
            FailsBeforeReport(c) =>
                /\ StatusCalls(c) = {}
                /\ trace'[c] = <<>>
                /\ queues' = queues
                /\ published' = published]_vars

(* a pass has dead-lettered and acknowledged its message and has not reported yet, and
   the connection can fail now *)
C30_Witness ==
    \E c \in Consumers :
        /\ pc[c] = "update_notification_status"
        /\ AckedOnce(c)
        /\ PublishesTo(c, {DLQ_NAME}) # {}
        /\ StatusCalls(c) = {}
        /\ ENABLED Crash(c)

(* ------------------- fair runs with a reliable broker ------------------ *)
(* schedule_retry / move_to_dlq when the broker accepts the declaration and the publish *)
ScheduleRetryAccepted(c) == ScheduleRetry(c) /\ published' # published

MoveToDlqAccepted(c) == MoveToDlq(c) /\ published' # published

(* process_message while the broker accepts every publish *)
HandlerAccepted(c) ==
    \/ Parse(c)
    \/ FetchUser(c)
    \/ FetchTemplate(c)
    \/ Send(c)
    \/ ScheduleRetryAccepted(c)
    \/ MoveToDlqAccepted(c)
    \/ BasicAck(c)
    \/ BasicNack(c)
    \/ UpdateNotificationStatus(c)
    \/ Return(c)

NextFair ==
    \/ ProducerPublish
    \/ \E c \in Consumers : Deliver(c)
    \/ \E c \in Consumers : HandlerAccepted(c)
    \/ \E q \in RetryQueues : Expire(q)

(* no connection fails and the broker accepts every publish; the broker delivers a waiting
   message to a consumer whose channel has room (basic_consume, line 441), the single
   thread of start_consuming runs process_message to its end (every HTTP call has
   timeout=5, lines 88, 118, 241), and the TTL of a retry queue expires *)
SpecFair ==
    /\ Init
    /\ [][NextFair]_vars
    /\ \A c \in Consumers : WF_vars(Deliver(c)) /\ WF_vars(HandlerAccepted(c))
    /\ \A q \in RetryQueues : WF_vars(Expire(q))

(* a copy of the notification waits on the main queue or on a retry queue, or is held
   unacknowledged by a consumer *)
InPlay(n) ==
    \/ \E q \in {QUEUE_NAME} \cup RetryQueues : \E b \in BagToSet(queues[q]) : IdOf(b) = n
    \/ \E c \in Consumers : unacked[c] # NoBody /\ IdOf(unacked[c]) = n

(* the notification was published and no copy of it is left to process *)
Terminal(n) == n \in entered /\ ~InPlay(n)

(* the copies of the notification published to retry queues so far *)
RetryCopies(n) == {e \in RetryPublished : IdOf(e[2]) = n}

(* the step starts a pass of consumer c / settles the delivery consumer c holds *)
PassStarts(c) == pc[c] = "idle" /\ pc'[c] = "json_loads"
Settles(c) == unacked[c] # NoBody /\ unacked'[c] = NoBody

(* C31: in a fair run without connection failures in which the broker accepts every
   publish, every notification published with retry_count 0 comes to a state where no
   copy of it is on the main queue, on a retry queue or in flight, and stays there; the
   pass that starts on it with retry_count k is pass k + 1 of the notification (k retry
   copies were published before) and k <= MAX_RETRY_COUNT, so there are at most 4 passes;
   the pass that settles the last copy rejects it, or has decided delivered, skipped or
   failed, and a failed one has put a copy on the dead-letter queue *)
C31_Terminates ==
    /\ \A n \in NotificationIds : (n \in entered) ~> Terminal(n)
    /\ [][\A n \in NotificationIds : Terminal(n) => Terminal(n)']_vars
    /\ [][\A c \in Consumers : \A n \in NotificationIds :
            /\ (PassStarts(c) /\ IdOf(unacked'[c]) = n) =>
                  /\ RcOf(unacked'[c]) <= MAX_RETRY_COUNT
                  /\ RcOf(unacked'[c]) = Cardinality(RetryCopies(n))
                  /\ \A e \in RetryCopies(n) : CopiesIn(e, published) = 1
            /\ (Settles(c) /\ IdOf(unacked[c]) = n) =>
                  /\ Terminal(n)' <=> (pc[c] = "basic_nack" \/ status[c].status \in {"delivered", "skipped", "failed"})
                  /\ (pc[c] = "basic_ack" /\ status[c].status = "failed") =>
                        \E b \in BagToSet(queues[DLQ_NAME]) : IdOf(b) = n]_vars

(* a notification has had its four passes, the last one dead-lettered it, and no copy is
   left to process *)
C31_Witness ==
    \E n \in NotificationIds :
        /\ Terminal(n)
        /\ Cardinality(RetryCopies(n)) = MAX_RETRY_COUNT
        /\ \E b \in BagToSet(queues[DLQ_NAME]) : IdOf(b) = n /\ RcOf(b) = MAX_RETRY_COUNT

(* ----------------------- the reports of a notification ----------------- *)
(* process_message while the collaborator that owns the delivery records answers every
   report; the history of the reports is kept in reports *)
HandlerReported(c) ==
    \/ Parse(c)
    \/ FetchUser(c)
    \/ FetchTemplate(c)
    \/ Send(c)
    \/ ScheduleRetry(c)
    \/ MoveToDlq(c)
    \/ BasicAck(c)
    \/ BasicNack(c)
    \/ UpdateNotificationStatusReceived(c)
    \/ Return(c)

NextReported ==
    \/ ProducerPublish
    \/ \E c \in Consumers : Deliver(c)
    \/ \E c \in Consumers : HandlerReported(c)
    \/ \E q \in RetryQueues : Expire(q)

(* the executions without connection failures in which every status report arrives *)
SpecReported == Init /\ [][NextReported]_vars

(* the reports made for a notification, in order *)
ReportsOf(n) == SelectSeq(reports, LAMBDA r : r.notification_id = n)

TerminalStatuses == {"delivered", "skipped", "failed"}

(* "retry scheduled, attempt N" as the collaborator reads it *)
PendingText(k) ==
    CASE k = 1 -> "Retry scheduled (attempt 1)"
      [] k = 2 -> "Retry scheduled (attempt 2)"
      [] k = 3 -> "Retry scheduled (attempt 3)"
      [] OTHER -> "?"

(* pending reports numbered 1, 2, 3 in that order, then at most one terminal report, and
   nothing after it *)
PendingThenTerminal(s) ==
    \A i \in DOMAIN s :
        /\ s[i].status \in TerminalStatuses \cup {"pending"}
        /\ s[i].status = "pending" => (i <= MAX_RETRY_COUNT /\ s[i].error = PendingText(i))
        /\ s[i].status \in TerminalStatuses => i = Len(s)

(* the last report made for the notification is a terminal one *)
EndsTerminal(s) == s # <<>> /\ s[Len(s)].status \in TerminalStatuses

(* a notification reported delivered or skipped has no copy on the dead-letter queue *)
DeliveredNotDeadLettered ==
    \A n \in NotificationIds :
        (\E i \in DOMAIN ReportsOf(n) : ReportsOf(n)[i].status \in {"delivered", "skipped"})
            => ~\E b \in BagToSet(queues[DLQ_NAME]) : IdOf(b) = n

(* the pass of consumer c is over and has left no copy of notification n to process *)
LastPassOver(c, n) == Finished(c) /\ IdOf(body[c]) = n /\ Terminal(n)

(* C32 as stated: the reports of a notification are pending 1, 2, 3 in order followed by
   exactly one terminal report, so when its last pass is over its last report is a
   terminal one *)
C32_ExactlyOneTerminal ==
    /\ \A n \in NotificationIds : PendingThenTerminal(ReportsOf(n))
    /\ DeliveredNotDeadLettered
    /\ \A c \in Consumers : \A n \in NotificationIds :
          LastPassOver(c, n) => EndsTerminal(ReportsOf(n))

(* C32 amended: the reports of a notification are at most three pending reports numbered
   1, 2, 3 in that order, followed by at most one terminal report from delivered, skipped,
   failed, with no report after it, and a notification reported delivered or skipped is
   never on the dead-letter queue; when the last pass is over there is exactly one
   terminal report unless that pass ended in the exception handler (it reports nothing)
   or the broker did not take its retry copy (the last report is then that pending one);
   a pass that leaves a retry copy has reported pending with the incremented count *)
C32_ReportSequence ==
    /\ \A n \in NotificationIds : PendingThenTerminal(ReportsOf(n))
    /\ DeliveredNotDeadLettered
    /\ \A c \in Consumers : \A n \in NotificationIds :
          /\ LastPassOver(c, n) =>
                IF Calls(c, "basic_nack") # {}
                THEN StatusCalls(c) = {} /\ ~EndsTerminal(ReportsOf(n))
                ELSE IF HelperRaised(c, "schedule_retry")
                THEN /\ ~EndsTerminal(ReportsOf(n))
                     /\ Len(ReportsOf(n)) = ReceivedRc(c) + 1
                ELSE EndsTerminal(ReportsOf(n))
          /\ (Finished(c) /\ IdOf(body[c]) = n /\ ~Terminal(n)) =>
                /\ Len(ReportsOf(n)) = ReceivedRc(c) + 1
                /\ ReportsOf(n)[Len(ReportsOf(n))].status = "pending"

(* three retries were reported as pending 1, 2, 3 and the fourth pass reported failed *)
C32_Witness ==
    \E n \in NotificationIds :
        /\ Len(ReportsOf(n)) = MAX_RETRY_COUNT + 1
        /\ ReportsOf(n)[1].error = PendingText(1)
        /\ ReportsOf(n)[MAX_RETRY_COUNT].error = PendingText(MAX_RETRY_COUNT)
        /\ ReportsOf(n)[MAX_RETRY_COUNT + 1].status = "failed"

(* ------------------------ the order of the checks ---------------------- *)
(* the lookups of the pass that returned data *)
UserFound(c) == Calls(c, "fetch_user_data") # {} /\ Profile(c) # NoData
TemplateFound(c) == \E i \in Calls(c, "fetch_template_data") : trace[c][i].found

(* every call named a comes before every call named b in the pass *)
Precedes(c, a, b) == \A i \in Calls(c, a) : \A j \in Calls(c, b) : i < j

(* C33: in a pass the user lookup comes first and the template lookup is made only for a
   found user with a non-empty push_token who has not disabled push; the gateway send is
   made only when, besides, the template was found; the first failing check alone decides:
   no user gives "User not found", a missing or empty push_token gives "Missing push
   token" whatever the preferences say, a disabled push with a token gives 'skipped'
   without a dead-letter call, a missing template gives "Template not found"; a user with
   neither a push_token nor push enabled ends dead-lettered as "Missing push token", not
   skipped *)
C33_CheckOrder ==
    \A c \in Consumers :
        ReceivedObject(c) =>
            /\ Calls(c, "fetch_template_data") # {} =>
                  /\ UserFound(c) /\ HasToken(c) /\ ~OptedOut(c)
                  /\ Precedes(c, "fetch_user_data", "fetch_template_data")
            /\ Calls(c, "send_push_notification_fcm") # {} =>
                  /\ UserFound(c) /\ HasToken(c) /\ ~OptedOut(c) /\ TemplateFound(c)
                  /\ Precedes(c, "fetch_template_data", "send_push_notification_fcm")
            /\ Cardinality(Calls(c, "fetch_user_data")) <= 1
            /\ Cardinality(Calls(c, "fetch_template_data")) <= 1
            /\ Calls(c, "fetch_user_data") # {} =>
                  /\ ~UserFound(c) =>
                        status[c] = [status |-> "failed", error |-> "User not found"] /\ reason[c] = "User not found"
                  /\ NoToken(c) =>
                        status[c] = [status |-> "failed", error |-> "Missing push token"] /\ reason[c] = "Missing push token"
                  /\ (HasToken(c) /\ OptedOut(c)) =>
                        status[c].status = "skipped" /\ Calls(c, "move_to_dlq") = {} /\ pc[c] # "move_to_dlq"
            /\ (Calls(c, "fetch_template_data") # {} /\ ~TemplateFound(c)) =>
                  /\ status[c] = [status |-> "failed", error |-> "Template not found"] /\ reason[c] = "Template not found"
                  /\ Calls(c, "send_push_notification_fcm") = {} /\ pc[c] # "send_push_notification_fcm"
            /\ (Finished(c) /\ NoToken(c) /\ OptedOut(c)) =>
                  /\ DeadLetteredAs(c, "Missing push token")
                  /\ ~Skipped(c)

(* the pass of a user who has no push_token and has disabled push is over: one call of
   move_to_dlq with "Missing push token", reported failed, and no template lookup *)
C33_Witness ==
    \E c \in Consumers :
        /\ Finished(c) /\ NoToken(c) /\ OptedOut(c)
        /\ "push_token" \notin DOMAIN Profile(c)
        /\ \E i \in Calls(c, "move_to_dlq") : trace[c][i].reason = "Missing push token"
        /\ ReportedOnce(c, "failed", "Missing push token")
        /\ Calls(c, "fetch_template_data") = {}

(* ------------------- calls through a circuit breaker ------------------- *)
(* the push consumer is not in use *)
PushIdle ==
    /\ InitConsumer
    /\ firebase_initialized = FALSE
    /\ LookupIdle
    /\ template_string = PyNone
    /\ dicts = <<(<<>>), (<<>>)>>
    /\ RendererIdle
    /\ BuilderIdle

(* a breaker was built and nothing was called through it *)
BreakerBuilt ==
    /\ \E t \in 1..MaxThreshold : \E r \in 0..MaxTimeout : cb = CircuitBreaker(t, r)
    /\ clock = 0
    /\ cb_pc = "idle"
    /\ cb_outcome = NoOutcome
    /\ cb_seen = NothingSeen

(* cb.call(func) is used with a plain function *)
InitBreaker == PushIdle /\ RetryIdle /\ StoreIdle /\ BreakerBuilt /\ func = PlainFunction

(* a function was decorated with @circuit_breaker(...) *)
InitDecorated == PushIdle /\ RetryIdle /\ StoreIdle /\ BreakerBuilt /\ func \in DecoratedFunctions

(* time passes *)
BreakerTick ==
    /\ clock < MaxClock
    /\ clock' = clock + 1
    /\ UNCHANGED <<consumer, renderer, builder, lookup, backoff, store, cb, func, cb_pc, cb_outcome, cb_seen>>

(* CircuitBreaker.call, lines 38-45 (entered directly or through a wrapper, lines
   95-101): an open breaker rejects the call, or lets it through as a trial *)
BreakerCall ==
    /\ cb_pc = "idle"
    /\ cb_seen.calls < MaxBreakerCalls
    /\ LET trial == cb.state = OPEN /\ should_attempt_reset(cb, clock)
           rejected == cb.state = OPEN /\ ~should_attempt_reset(cb, clock)
       IN  /\ cb' = IF trial THEN [cb EXCEPT !.state = HALF_OPEN] ELSE cb
           /\ cb_pc' = IF rejected THEN "idle" ELSE "func"
           /\ cb_outcome' = IF rejected THEN Raise("CircuitBreakerOpenError") ELSE NoOutcome
           /\ cb_seen' = [cb_seen EXCEPT !.calls = @ + 1,
                                         !.invocations = IF rejected THEN @ ELSE @ + 1]
    /\ UNCHANGED <<consumer, renderer, builder, lookup, backoff, store, clock, func>>

(* CircuitBreaker.call, lines 47-53: the call of func returns or raises. Calling a
   coroutine function runs none of its body: it returns a coroutine object, which call
   takes for the result. async_wrapper (line 97) awaits what call returns, which raises
   TypeError when that is not awaitable *)
BreakerReturn ==
    /\ cb_pc = "func"
    /\ IF func.coroutine
       THEN /\ cb' = on_success(cb)
            /\ cb_pc' = "await"
            /\ cb_seen' = [cb_seen EXCEPT !.streak = 0]
            /\ UNCHANGED cb_outcome
       ELSE /\ cb_pc' = "idle"
            /\ \/ /\ cb' = on_success(cb)
                  /\ cb_seen' = [cb_seen EXCEPT !.streak = 0, !.failures = 0]
                  /\ cb_outcome' = IF func.decorated /\ Wrapper(func) = "async_wrapper"
                                   THEN Raise("TypeError")
                                   ELSE Returned
               \/ \E e \in FuncExceptions :
                     /\ cb' = on_failure(cb, clock)
                     /\ cb_seen' = [cb_seen EXCEPT !.streak = @ + 1, !.failures = @ + 1]
                     /\ cb_outcome' = Raise(e)
    /\ UNCHANGED <<consumer, renderer, builder, lookup, backoff, store, clock, func>>

(* the coroutine object is awaited, by async_wrapper (line 97) or by the caller of
   sync_wrapper (line 101): the body of the function runs now, outside call *)
BreakerAwait ==
    /\ cb_pc = "await"
    /\ cb_pc' = "idle"
    /\ \/ /\ cb_outcome' = Returned
          /\ cb_seen' = [cb_seen EXCEPT !.failures = 0]
       \/ \E e \in FuncExceptions :
             /\ cb_outcome' = Raise(e)
             /\ cb_seen' = [cb_seen EXCEPT !.failures = @ + 1]
    /\ UNCHANGED <<consumer, renderer, builder, lookup, backoff, store, cb, clock, func>>

NextBreaker ==
    \/ BreakerTick
    \/ BreakerCall
    \/ BreakerReturn

(* sequential calls of a plain function through CircuitBreaker.call *)
SpecBreaker == InitBreaker /\ [][NextBreaker]_vars

NextDecorated ==
    \/ BreakerTick
    \/ BreakerCall
    \/ BreakerReturn
    \/ BreakerAwait

(* sequential calls of a function decorated with @circuit_breaker *)
SpecDecorated == InitDecorated /\ [][NextDecorated]_vars

(* the step enters call / is the end of func inside call *)
Enters == cb_seen'.calls = cb_seen.calls + 1
FuncEnds == cb_pc = "func" /\ cb_pc' # "func"

(* the time since the last failure *)
Elapsed == clock - cb.last_failure_time

(* C34: between calls, a breaker that has seen failure_threshold calls raise in a row is
   OPEN; a call that enters an OPEN breaker before recovery_timeout has elapsed since the
   last failure raises CircuitBreakerOpenError, does not invoke the function and leaves
   the breaker as it was; an exception the function raises reaches the caller as it is;
   a breaker that was built and has seen no failure is CLOSED *)
C34_OpensAndRejects ==
    /\ [](cb_pc = "idle" =>
            /\ cb_seen.streak >= cb.failure_threshold => cb.state = OPEN
            /\ cb_seen.streak = 0 /\ cb.last_failure_time = NeverFailed => cb.state = CLOSED)
    /\ [][(Enters /\ cb.state = OPEN /\ Elapsed < cb.recovery_timeout) =>
              /\ cb_outcome' = Raise("CircuitBreakerOpenError")
              /\ cb_seen'.invocations = cb_seen.invocations
              /\ cb_pc' = "idle"
              /\ cb' = cb]_vars
    /\ [][(FuncEnds /\ cb'.failure_count = cb.failure_count + 1) =>
              /\ cb_outcome'.kind = "raised"
              /\ cb_outcome'.exception \in FuncExceptions
              /\ cb_seen'.streak = cb_seen.streak + 1]_vars
    /\ [][(cb_outcome'.kind = "raised" /\ cb_outcome' # cb_outcome /\ ~Enters) => cb'.failure_count = cb.failure_count + 1]_vars

(* the breaker is OPEN after failure_threshold = 2 failures in a row and has just rejected
   a call made before its recovery_timeout had elapsed *)
C34_Witness ==
    /\ cb.failure_threshold = 2
    /\ cb.state = OPEN
    /\ cb_seen.streak = 2
    /\ cb_outcome = Raise("CircuitBreakerOpenError")
    /\ cb_seen.invocations = 2
    /\ cb_seen.calls = 3
    /\ Elapsed < cb.recovery_timeout

(* C35: a call that enters an OPEN breaker once recovery_timeout has elapsed since the
   last failure invokes the function as a trial, the breaker being HALF_OPEN meanwhile;
   when the trial returns the breaker is CLOSED with failure_count 0; when it raises the
   breaker is OPEN again after that one failure and last_failure_time is the time of
   that failure, so the timeout runs anew; a breaker is HALF_OPEN only during a trial *)
C35_Recovery ==
    /\ [](cb.state = HALF_OPEN => cb_pc = "func")
    /\ [][(Enters /\ cb.state = OPEN /\ Elapsed >= cb.recovery_timeout) =>
              /\ cb'.state = HALF_OPEN
              /\ cb_pc' = "func"
              /\ cb_seen'.invocations = cb_seen.invocations + 1
              /\ cb'.failure_count = cb.failure_count
              /\ cb'.last_failure_time = cb.last_failure_time]_vars
    /\ [][(FuncEnds /\ cb.state = HALF_OPEN) =>
              \/ /\ cb_outcome' = Returned
                 /\ cb'.state = CLOSED
                 /\ cb'.failure_count = 0
              \/ /\ cb_outcome'.kind = "raised"
                 /\ cb'.state = OPEN
                 /\ cb'.failure_count = cb.failure_count + 1
                 /\ cb'.last_failure_time = clock
                 /\ (cb.recovery_timeout > 0 => clock' - cb'.last_failure_time < cb.recovery_timeout)]_vars

(* a trial has failed: the breaker is OPEN again, and the call made after it, before the
   timeout has elapsed anew, was rejected *)
C35_Witness ==
    /\ cb.state = OPEN
    /\ cb.failure_threshold = 1
    /\ cb.failure_count = 2
    /\ cb.last_failure_time > 0
    /\ cb_outcome = Raise("CircuitBreakerOpenError")
    /\ cb_seen.invocations = 2
    /\ cb_seen.calls = 3

(* C36: for failure_threshold >= 1 and sequential calls, between calls the state is
   CLOSED or OPEN and never HALF_OPEN; OPEN implies failure_count >= failure_threshold
   and a last_failure_time; CLOSED implies failure_count < failure_threshold; after a
   call that returned, failure_count is 0 and the breaker is CLOSED; the breaker is OPEN
   only when the last failure_threshold invocations in a row raised *)
C36_BreakerInvariant ==
    cb_pc = "idle" =>
        /\ cb.failure_threshold >= 1
        /\ cb.state \in {CLOSED, OPEN}
        /\ cb.state = OPEN => (cb.failure_count >= cb.failure_threshold /\ cb.last_failure_time # NeverFailed)
        /\ cb.state = CLOSED => cb.failure_count < cb.failure_threshold
        /\ cb_outcome = Returned => (cb.failure_count = 0 /\ cb.state = CLOSED)
        /\ cb.state = OPEN => cb_seen.streak >= cb.failure_threshold
        /\ cb.failure_count = cb_seen.streak

(* with failure_threshold 2, a failure, a success and another failure have left the
   breaker CLOSED with failure_count 1 *)
C36_Witness ==
    /\ cb_pc = "idle"
    /\ cb.failure_threshold = 2
    /\ cb.state = CLOSED
    /\ cb.failure_count = 1
    /\ cb_seen.invocations = 3
    /\ cb_outcome.kind = "raised"

(* C37 as stated: a decorated coroutine function whose awaited calls have raised
   failure_threshold times in a row has an OPEN breaker between calls (so that the next
   call is rejected instead of running the function) *)
C37_AsyncProtected ==
    (cb_pc = "idle" /\ func.coroutine /\ cb_seen.failures >= cb.failure_threshold) => cb.state = OPEN

(* ------------------------- retry_with_backoff -------------------------- *)
(* retry_with_backoff(func, max_retries, base_delay, max_delay) is called, directly or by
   the wrapper of async_retry (lines 66-73), and is at the head of its loop *)
InitRetry ==
    /\ PushIdle /\ BreakerIdle /\ StoreIdle
    /\ \E m \in -1..MaxRetries : \E b \in 1..MaxBaseDelay : \E d \in 1..MaxDelay :
          retry = [max_retries |-> m, base_delay |-> b, max_delay |-> d, attempt |-> 0, pc |-> "for",
                   last_exception |-> NoException, delay |-> 0]
    /\ retry_seen = NoInvocations

(* line 36, `for attempt in range(max_retries + 1)`, and line 56 after the loop *)
RetryFor ==
    /\ retry.pc = "for"
    /\ IF retry.attempt < retry.max_retries + 1
       THEN /\ retry' = [retry EXCEPT !.pc = "func"]
            /\ UNCHANGED retry_seen
       ELSE /\ retry' = [retry EXCEPT !.pc = "raised"]
            /\ retry_seen' = [retry_seen EXCEPT !.outcome =
                                 IF retry.last_exception = NoException
                                 THEN Raise(RaiseNone)
                                 ELSE Raise(retry.last_exception)]
    /\ UNCHANGED <<consumer, renderer, builder, lookup, guard, store>>

(* lines 37-49: `return await func(...)`, or the except branch: the last attempt
   re-raises, the others compute the delay *)
RetryInvoke ==
    /\ retry.pc = "func"
    /\ LET k == Len(retry_seen.invocations) + 1
       IN  \/ /\ retry' = [retry EXCEPT !.pc = "returned"]
              /\ retry_seen' = [retry_seen EXCEPT !.invocations = Append(@, Returned),
                                                  !.outcome = [kind |-> "returned", invocation |-> k]]
           \/ /\ retry_seen' = [retry_seen EXCEPT !.invocations = Append(@, Raise(ExceptionOf(k))),
                                                  !.outcome = IF retry.attempt = retry.max_retries
                                                              THEN Raise(ExceptionOf(k))
                                                              ELSE @]
              /\ retry' = [retry EXCEPT !.last_exception = ExceptionOf(k),
                                        !.pc = IF retry.attempt = retry.max_retries THEN "raised" ELSE "sleep",
                                        !.delay = IF retry.attempt = retry.max_retries
                                                  THEN @
                                                  ELSE BackoffDelay(retry.base_delay, retry.max_delay, retry.attempt)]
    /\ UNCHANGED <<consumer, renderer, builder, lookup, guard, store>>

(* line 54: await asyncio.sleep(delay), then the next round of the loop *)
RetrySleep ==
    /\ retry.pc = "sleep"
    /\ retry_seen' = [retry_seen EXCEPT !.sleeps = Append(@, retry.delay)]
    /\ retry' = [retry EXCEPT !.attempt = @ + 1, !.pc = "for"]
    /\ UNCHANGED <<consumer, renderer, builder, lookup, guard, store>>

NextRetry ==
    \/ RetryFor
    \/ RetryInvoke
    \/ RetrySleep

SpecRetry == InitRetry /\ [][NextRetry]_vars

(* the invocations of func that raised / the call is over *)
FailedInvocations == {i \in DOMAIN retry_seen.invocations : retry_seen.invocations[i].kind = "raised"}
RetryOver == retry.pc \in {"returned", "raised"}

(* min(base_delay * 2^i, max_delay) *)
ExpectedDelay(i) ==
    IF retry.base_delay * (2 ^ i) < retry.max_delay THEN retry.base_delay * (2 ^ i) ELSE retry.max_delay

(* C38: func is invoked at most max_retries + 1 times; an invocation that returns is the
   last one and its result is what retry_with_backoff returns; when retry_with_backoff
   raises after invoking func, all max_retries + 1 invocations have raised and the
   exception is that of the last one; the wait that follows failed attempt i is
   min(base_delay * 2^i, max_delay), there is one wait after each failed attempt but the
   last, and none once the call is over *)
C38_RetryBackoff ==
    LET inv == retry_seen.invocations
        n == Len(inv)
    IN  /\ n <= retry.max_retries + 1
        /\ \A i \in DOMAIN inv : inv[i] = Returned =>
              /\ i = n
              /\ retry.pc = "returned"
              /\ retry_seen.outcome = [kind |-> "returned", invocation |-> i]
        /\ retry.pc = "returned" => (n >= 1 /\ inv[n] = Returned)
        /\ (retry.pc = "raised" /\ n >= 1) =>
              /\ n = retry.max_retries + 1
              /\ FailedInvocations = DOMAIN inv
              /\ retry_seen.outcome = inv[n]
        /\ \A i \in DOMAIN retry_seen.sleeps : retry_seen.sleeps[i] = ExpectedDelay(i - 1)
        /\ Len(retry_seen.sleeps) <= Cardinality(FailedInvocations)
        /\ RetryOver => Len(retry_seen.sleeps) = (IF n = 0 THEN 0 ELSE n - 1)
        /\ retry.pc \in {"for", "func"} => Len(retry_seen.sleeps) = n

(* with max_retries 3 all four invocations have raised, the waits were 2, 4 and the capped
   4, and the exception of the fourth invocation was raised *)
C38_Witness ==
    /\ retry.pc = "raised"
    /\ retry.max_retries = 3
    /\ Len(retry_seen.invocations) = 4
    /\ retry_seen.sleeps = <<2, 4, 4>>
    /\ retry_seen.outcome = Raise(ExceptionOf(4))

(* ------------------- requests to the template service ------------------ *)
InitTemplates == PushIdle /\ BreakerIdle /\ RetryIdle /\ StoreIdle

(* the requests that are being handled *)
InFlightRequests == {r \in DOMAIN requests : requests[r].pc # "done"}

(* the highest version an update_template that has returned has created *)
Updated ==
    LET vs == {requests[r].response.data.version :
                  r \in {x \in DOMAIN requests :
                            requests[x].handler = "update_template" /\ requests[x].response.status_code = 200}}
    IN  IF vs = {} THEN 0 ELSE CHOOSE v \in vs : \A w \in vs : w <= v

(* a request arrives and its handler starts *)
Arrive ==
    /\ Len(requests) < MaxRequests
    /\ Cardinality(InFlightRequests) < Cardinality(Workers)
    /\ \E h \in {"create_template", "get_latest_template", "update_template"} :
       \E u \in (IF h = "update_template" THEN TemplateUpdates ELSE {[subject |-> None, body |-> None]}) :
          requests' = Append(requests,
                             [handler |-> h,
                              pc |-> IF h = "get_latest_template" THEN "get_template_cache" ELSE "get_template_by_name",
                              template_update |-> u, template |-> NoRow, response |-> NoResponse,
                              stored |-> NoRow, updated |-> Updated])
    /\ UNCHANGED <<consumer, renderer, builder, lookup, guard, backoff, templates, redis>>

(* the request ends with this response, and the handler's locals are gone *)
Respond(r, code, data) ==
    requests' = [requests EXCEPT ![r].pc = "done", ![r].template = NoRow,
                                 ![r].response = [status_code |-> code, data |-> data]]

(* the handler of request r goes on at pc p, holding row t *)
Goto(r, p, t) == requests' = [requests EXCEPT ![r].pc = p, ![r].template = t]

(* get_latest_template, lines 70-76: a hit is returned as it is *)
GetCache(r) ==
    /\ requests[r].pc = "get_template_cache"
    /\ \E o \in RedisOutcomes :
          CASE o = "ok" /\ redis # NoEntry -> Respond(r, 200, redis.value)
            [] o = "error_raised" -> Respond(r, 500, NoRow)
            [] OTHER -> Goto(r, "get_template_by_name", NoRow)
    /\ UNCHANGED <<consumer, renderer, builder, lookup, guard, backoff, templates, redis>>

(* lines 32-39, 79-85 and 121-127: the latest row is read; create_template answers 409
   when there is one, the other two 404 when there is none *)
Select(r) ==
    /\ requests[r].pc = "get_template_by_name"
    /\ LET t == get_template_by_name(templates)
       IN  CASE requests[r].handler = "create_template" ->
                   IF t # NoRow THEN Respond(r, 409, NoRow) ELSE Goto(r, "commit", NoRow)
             [] requests[r].handler = "get_latest_template" ->
                   IF t = NoRow THEN Respond(r, 404, NoRow) ELSE Goto(r, "set_template_cache", t)
             [] requests[r].handler = "update_template" ->
                   IF t = NoRow THEN Respond(r, 404, NoRow) ELSE Goto(r, "commit", t)
    /\ UNCHANGED <<consumer, renderer, builder, lookup, guard, backoff, templates, redis>>

(* get_latest_template, lines 89-96: the row read is written to the cache and returned *)
GetSet(r) ==
    /\ requests[r].pc = "set_template_cache"
    /\ \E o \in RedisOutcomes :
          /\ redis' = IF o = "ok" THEN Entry(requests[r].template) ELSE redis
          /\ IF o = "error_raised"
             THEN Respond(r, 500, NoRow)
             ELSE Respond(r, 200, requests[r].template)
    /\ UNCHANGED <<consumer, renderer, builder, lookup, guard, backoff, templates>>

(* crud.create_template lines 38-41 and crud.create_new_template_version lines 63-66:
   the new row is committed, or the commit fails on the unique index (IntegrityError,
   answered 500); create_template then answers 201. stored records the row the request
   committed *)
Commit(r) ==
    /\ requests[r].pc = "commit"
    /\ LET row == IF requests[r].handler = "create_template"
                  THEN create_template(TemplateCreate)
                  ELSE create_new_template_version(requests[r].template, requests[r].template_update)
       IN  IF UniqueViolation(templates, row)
           THEN /\ Respond(r, 500, NoRow)
                /\ UNCHANGED templates
           ELSE /\ templates' = templates \cup {row}
                /\ requests' =
                      IF requests[r].handler = "create_template"
                      THEN [requests EXCEPT ![r].pc = "done", ![r].stored = row,
                                            ![r].response = [status_code |-> 201, data |-> row]]
                      ELSE [requests EXCEPT ![r].pc = "clear_template_cache", ![r].stored = row,
                                            ![r].template = row]
    /\ UNCHANGED <<consumer, renderer, builder, lookup, guard, backoff, redis>>

(* update_template, line 137: the cache entry is deleted *)
UpdateClear(r) ==
    /\ requests[r].pc = "clear_template_cache"
    /\ \E o \in RedisOutcomes :
          /\ redis' = IF o = "ok" THEN NoEntry ELSE redis
          /\ IF o = "error_raised"
             THEN Respond(r, 500, NoRow)
             ELSE Goto(r, "publish_template_update_message", requests[r].template)
    /\ UNCHANGED <<consumer, renderer, builder, lookup, guard, backoff, templates>>

(* update_template, lines 140-148: the invalidation message is published to the fanout
   exchange (a failure is logged, messaging.py 85-86) and the new version is returned *)
UpdatePublish(r) ==
    /\ requests[r].pc = "publish_template_update_message"
    /\ Respond(r, 200, requests[r].template)
    /\ UNCHANGED <<consumer, renderer, builder, lookup, guard, backoff, templates, redis>>

(* the entry's time to live (ttl=3600, cache.py line 85) runs out *)
CacheExpire ==
    /\ redis # NoEntry
    /\ redis' = NoEntry
    /\ UNCHANGED <<consumer, renderer, builder, lookup, guard, backoff, templates, requests>>

NextTemplates ==
    \/ Arrive
    \/ \E r \in DOMAIN requests : GetCache(r)
    \/ \E r \in DOMAIN requests : Select(r)
    \/ \E r \in DOMAIN requests : GetSet(r)
    \/ \E r \in DOMAIN requests : Commit(r)
    \/ \E r \in DOMAIN requests : UpdateClear(r)
    \/ \E r \in DOMAIN requests : UpdatePublish(r)
    \/ CacheExpire

(* concurrent requests about one (name, language) *)
SpecTemplates == InitTemplates /\ [][NextTemplates]_vars

(* C39 as stated: a get_latest_template that started after an update_template had
   returned never returns a version older than the one that update created *)
C39_FreshReads ==
    \A r \in DOMAIN requests :
        (requests[r].handler = "get_latest_template" /\ requests[r].response.status_code = 200)
            => requests[r].response.data.version >= requests[r].updated



(* the versions stored and the requests that stored a row *)
Versions == {t.version : t \in templates}
Storing == {r \in DOMAIN requests : requests[r].stored # NoRow}
Answered(r, code) == requests[r].response.status_code # code /\ requests'[r].response.status_code = code
Stores(r) == requests[r].stored = NoRow /\ requests'[r].stored # NoRow

VersionsContiguous ==
    /\ \A t, u \in templates : t.version = u.version => t = u
    /\ Versions = 1 .. Cardinality(templates)

OneRequestPerVersion ==
    \A r1, r2 \in Storing :
        /\ requests[r1].stored \in templates
        /\ requests[r1].stored.version = requests[r2].stored.version => r1 = r2

CreateStoresFirst ==
    \A r \in DOMAIN requests :
        requests[r].handler = "create_template" =>
            /\ requests[r].response.status_code = 201 <=> r \in Storing
            /\ r \in Storing => requests[r].stored.version = 1

StoringSteps ==
    /\ templates \subseteq templates'
    /\ \A r \in DOMAIN requests :
          /\ Answered(r, 409) => templates # {} /\ templates' = templates
          /\ Stores(r) /\ requests[r].handler = "create_template" =>
                templates = {} /\ templates' = {requests'[r].stored}
          /\ Stores(r) /\ requests[r].handler = "update_template" =>
                LET latest == CHOOSE t \in templates : t.version = Cardinality(templates)
                    new == requests'[r].stored
                    given == requests[r].template_update
                IN  /\ new.version = latest.version + 1
                    /\ new.subject = (IF given.subject = None THEN latest.subject ELSE given.subject)
                    /\ new.body = (IF given.body = None THEN latest.body ELSE given.body)
                    /\ templates' = templates \cup {new}
                    /\ new \notin templates
    /\ (\A r \in DOMAIN requests : ~Stores(r)) /\ requests # requests' => templates' = templates
    /\ Len(requests') > Len(requests) => templates' = templates

(* C40: the stored versions are distinct and are 1..n; create_template stores version 1
   and only into an empty table, and its 409 adds nothing; an update stores latest + 1
   with the fields it does not give copied from the latest row; no row is ever changed
   or removed; no two requests store the same version *)
C40_Versioning ==
    /\ [](VersionsContiguous /\ OneRequestPerVersion /\ CreateStoresFirst)
    /\ [][StoringSteps]_vars

(* two updates raced for version 2 and one lost on the unique index, after a second
   create was answered 409 *)
C40_Witness ==
    /\ \E r \in DOMAIN requests :
          requests[r].handler = "create_template" /\ requests[r].response.status_code = 409
    /\ \E r1, r2 \in DOMAIN requests :
          /\ requests[r1].handler = "update_template" /\ requests[r2].handler = "update_template"
          /\ requests[r1].stored # NoRow /\ requests[r1].stored.version = 2
          /\ requests[r2].stored = NoRow /\ requests[r2].response.status_code = 500

====
